---------------------------- MODULE Spec2Model ----------------------------
(***************************************************************************)
(* Parcel splitter: the planar-geometry engine of src/unnamed/part_001     *)
(* (calculatePolygonArea, isPointInPolygon, the Sutherland-Hodgman         *)
(* clipper, calculateAreas) and the handlers of its component App.         *)
(*                                                                         *)
(* Numbers.  The program computes with IEEE doubles.  The model computes   *)
(* with exact rationals <<n, d>> (d > 0, gcd(n, d) = 1), so every          *)
(* comparison, product and quotient of the source is evaluated on its      *)
(* mathematical value; rounding of doubles is outside the model.  The      *)
(* tolerances of the source (1e-6, 1e-9) are kept as they are.             *)
(***************************************************************************)
EXTENDS Integers, Sequences, FiniteSets, TLC

VARIABLES
    polygonPoints,     \* PixelCoord[]: the vertex list every operation reads
    initialSqM,        \* number: the total area entered by the user
    splitDirection,    \* "vertical" | "horizontal"
    splitNaturalX,     \* number | null
    splitNaturalY,     \* number | null
    imageDimensions,   \* {width, height} | null
    imageSrc,          \* the data URL of the image | null
    isDefiningPolygon, \* boolean: the mode flag
    definedPolygonAreaPixels,   \* number | null
    reader,            \* number of FileReader reads in flight
    polygonBounds,     \* Bounds | null: state of src/src/App.tsx only
    point,             \* argument of isPointInPolygon
    clipBounds,        \* argument of clipPolygonSutherlandHodgman
    called,            \* the operation that has been applied ("none" before)
    ret                \* its return value

(* The state of the interface that the geometry operations do not read.   *)
uiVars == <<imageSrc, isDefiningPolygon, definedPolygonAreaPixels, reader>>

vars == <<polygonPoints, initialSqM, splitDirection, splitNaturalX,
          splitNaturalY, imageDimensions, point, clipBounds, called, ret,
          uiVars, polygonBounds>>

(* null: for a number-or-null (numbers are pairs) and for an               *)
(* object-or-null (objects are records).                                   *)
Null == <<>>
NullObj == [null |-> TRUE]

---------------------------------------------------------------------------
(* Exact rational arithmetic.                                              *)

Abs(i) == IF i < 0 THEN -i ELSE i

RECURSIVE GCD(_, _)
GCD(a, b) == IF b = 0 THEN a ELSE GCD(b, a % b)

Norm(n, d) == LET g == GCD(Abs(n), d) IN <<n \div g, d \div g>>

R(i) == <<i, 1>>
Frac(n, d) == Norm(n, d)
Zero == <<0, 1>>
One == <<1, 1>>

RNeg(a) == <<-a[1], a[2]>>

RAdd(a, b) ==
    IF a[2] = 1 /\ b[2] = 1 THEN <<a[1] + b[1], 1>>
    ELSE LET g == GCD(a[2], b[2])
         IN Norm(a[1] * (b[2] \div g) + b[1] * (a[2] \div g), (a[2] \div g) * b[2])

RSub(a, b) == RAdd(a, RNeg(b))

RMul(a, b) ==
    IF a[2] = 1 /\ b[2] = 1 THEN <<a[1] * b[1], 1>>
    ELSE LET g1 == GCD(Abs(a[1]), b[2])
             g2 == GCD(Abs(b[1]), a[2])
         IN <<(a[1] \div g1) * (b[1] \div g2), (a[2] \div g2) * (b[2] \div g1)>>

RInv(a) == IF a[1] > 0 THEN <<a[2], a[1]>> ELSE <<-a[2], -a[1]>>

RDiv(a, b) == RMul(a, RInv(b))

RLt(a, b) ==
    IF a[2] = b[2] THEN a[1] < b[1]
    ELSE LET g == GCD(a[2], b[2])
         IN a[1] * (b[2] \div g) < b[1] * (a[2] \div g)

RLe(a, b) == a = b \/ RLt(a, b)
RGt(a, b) == RLt(b, a)
RGe(a, b) == RLe(b, a)

RAbs(a) == <<Abs(a[1]), a[2]>>
RMin(a, b) == IF RLt(b, a) THEN b ELSE a
RMax(a, b) == IF RLt(a, b) THEN b ELSE a

(* a > 1/den, a < 1/den and a >= -1/den, for a normalised rational a,      *)
(* without forming a * den.                                                *)
GtInv(a, den) == a[1] > a[2] \div den
LtInv(a, den) == a[1] <= 0 \/ a[1] <= (a[2] - 1) \div den
GeNegInv(a, den) == -a[1] <= a[2] \div den

Pt(x, y) == [x |-> x, y |-> y]
IPt(i, j) == [x |-> R(i), y |-> R(j)]

---------------------------------------------------------------------------
(* calculatePolygonArea: the Shoelace sum, then Math.abs(area / 2).        *)

(* Mutant of ShoelaceFrom: the ring is not closed (j = i + 1 stops at the   *)
(* last vertex instead of wrapping to the first).                          *)
RECURSIVE ShoelaceFrom_NoWrap(_, _, _)
ShoelaceFrom_NoWrap(vertices, i, area) ==
    IF i >= Len(vertices) THEN area
    ELSE LET j == i + 1
             plus == RAdd(area, RMul(vertices[i].x, vertices[j].y))
         IN ShoelaceFrom_NoWrap(vertices, i + 1,
                                RSub(plus, RMul(vertices[j].x, vertices[i].y)))

(* Mutant of ShoelaceFrom: the second product is not subtracted.           *)
RECURSIVE ShoelaceFrom_NoSubtract(_, _, _)
ShoelaceFrom_NoSubtract(vertices, i, area) ==
    IF i > Len(vertices) THEN area
    ELSE LET j == (i % Len(vertices)) + 1
         IN ShoelaceFrom_NoSubtract(vertices, i + 1,
                RAdd(area, RMul(vertices[i].x, vertices[j].y)))

RECURSIVE ShoelaceFrom(_, _, _)
ShoelaceFrom(vertices, i, area) ==
    IF i > Len(vertices) THEN area
    ELSE LET j == (i % Len(vertices)) + 1
             plus == RAdd(area, RMul(vertices[i].x, vertices[j].y))
         IN ShoelaceFrom(vertices, i + 1,
                         RSub(plus, RMul(vertices[j].x, vertices[i].y)))

(* Mutant of calculatePolygonArea: Math.abs is forgotten.                  *)
calculatePolygonArea_Signed(vertices) ==
    RDiv(ShoelaceFrom(vertices, 1, Zero), R(2))

calculatePolygonArea(vertices) ==
    RAbs(RDiv(ShoelaceFrom(vertices, 1, Zero), R(2)))

---------------------------------------------------------------------------
(* isPointInPolygon: ray casting with the horizontal-edge special case.    *)
(* The loop runs i = 0 .. length-1 with j the previous index (length-1     *)
(* first); here indices are 1-based.                                       *)

(* Mutant of RayCastFrom: the horizontal-edge case forgets the x-range     *)
(* test (any point level with a horizontal edge is reported inside).       *)
RECURSIVE RayCastFrom_NoRange(_, _, _, _)
RayCastFrom_NoRange(p, polygon, i, isInside) ==
    IF i > Len(polygon) THEN isInside
    ELSE LET j == IF i = 1 THEN Len(polygon) ELSE i - 1
             xi == polygon[i].x
             yi == polygon[i].y
             xj == polygon[j].x
             yj == polygon[j].y
         IN IF yj = yi
            THEN IF p.y = yi
                 THEN TRUE
                 ELSE RayCastFrom_NoRange(p, polygon, i + 1, isInside)
            ELSE LET intersect ==
                         /\ RGt(yi, p.y) # RGt(yj, p.y)
                         /\ RLt(p.x, RAdd(RDiv(RMul(RSub(xj, xi), RSub(p.y, yi)),
                                               RSub(yj, yi)), xi))
                 IN RayCastFrom_NoRange(p, polygon, i + 1,
                                        IF intersect THEN ~isInside ELSE isInside)

RECURSIVE RayCastFrom(_, _, _, _)
RayCastFrom(p, polygon, i, isInside) ==
    IF i > Len(polygon) THEN isInside
    ELSE LET j == IF i = 1 THEN Len(polygon) ELSE i - 1
             xi == polygon[i].x
             yi == polygon[i].y
             xj == polygon[j].x
             yj == polygon[j].y
         IN IF yj = yi
            THEN IF p.y = yi /\ RGe(p.x, RMin(xi, xj)) /\ RLe(p.x, RMax(xi, xj))
                 THEN TRUE
                 ELSE RayCastFrom(p, polygon, i + 1, isInside)
            ELSE LET intersect ==
                         /\ RGt(yi, p.y) # RGt(yj, p.y)
                         /\ RLt(p.x, RAdd(RDiv(RMul(RSub(xj, xi), RSub(p.y, yi)),
                                               RSub(yj, yi)), xi))
                 IN RayCastFrom(p, polygon, i + 1,
                                IF intersect THEN ~isInside ELSE isInside)

(* Mutant of isPointInPolygon: the length of the list is not tested.       *)
isPointInPolygon_NoLengthTest(p, polygon) == RayCastFrom(p, polygon, 1, FALSE)

isPointInPolygon(p, polygon) ==
    IF Len(polygon) < 3 THEN FALSE
    ELSE RayCastFrom(p, polygon, 1, FALSE)

---------------------------------------------------------------------------
(* Sutherland-Hodgman clipping.                                            *)

EpsilonDen == 1000000       \* epsilon = 1e-6 (inside checks)
ParallelDen == 1000000000   \* 1e-9 (edge parallel to the clip line)

(* Mutant of intersectSH: every edge is taken to be parallel to the clip   *)
(* line, so the crossing keeps p1's other coordinate.                      *)
intersectSH_Parallel(p1, p2, edgeType, coord) ==
    IF edgeType \in {"left", "right"} THEN Pt(coord, p1.y) ELSE Pt(p1.x, coord)

intersectSH(p1, p2, edgeType, coord) ==
    IF edgeType \in {"left", "right"}
    THEN IF LtInv(RAbs(RSub(p2.x, p1.x)), ParallelDen)
         THEN Pt(coord, p1.y)
         ELSE Pt(coord, RAdd(p1.y, RDiv(RMul(RSub(p2.y, p1.y), RSub(coord, p1.x)),
                                        RSub(p2.x, p1.x))))
    ELSE IF LtInv(RAbs(RSub(p2.y, p1.y)), ParallelDen)
         THEN Pt(p1.x, coord)
         ELSE Pt(RAdd(p1.x, RDiv(RMul(RSub(p2.x, p1.x), RSub(coord, p1.y)),
                                 RSub(p2.y, p1.y))), coord)

(* Mutant of insideCheck: strict comparisons without the tolerance.        *)
insideCheck_Strict(p, edgeType, coord) ==
    CASE edgeType = "left"   -> RGt(p.x, coord)
      [] edgeType = "right"  -> RLt(p.x, coord)
      [] edgeType = "top"    -> RGt(p.y, coord)
      [] edgeType = "bottom" -> RLt(p.y, coord)

(* The four insideCheck closures of clipPolygonSutherlandHodgman.          *)
insideCheck(p, edgeType, coord) ==
    CASE edgeType = "left"   -> GeNegInv(RSub(p.x, coord), EpsilonDen)
      [] edgeType = "right"  -> GeNegInv(RSub(coord, p.x), EpsilonDen)
      [] edgeType = "top"    -> GeNegInv(RSub(p.y, coord), EpsilonDen)
      [] edgeType = "bottom" -> GeNegInv(RSub(coord, p.y), EpsilonDen)

(* Mutant of ClipLoop: the current point is pushed before the crossing.    *)
RECURSIVE ClipLoop_CurrentFirst(_, _, _, _, _, _)
ClipLoop_CurrentFirst(subjectPolygon, edgeType, coord, i, prevPoint, outputList) ==
    IF i > Len(subjectPolygon) THEN outputList
    ELSE LET currentPoint == subjectPolygon[i]
             currentPointInside == insideCheck(currentPoint, edgeType, coord)
             prevPointInside == insideCheck(prevPoint, edgeType, coord)
             withCurrent ==
                 IF currentPointInside THEN Append(outputList, currentPoint)
                 ELSE outputList
             withCrossing ==
                 IF currentPointInside # prevPointInside
                 THEN Append(withCurrent,
                             intersectSH(prevPoint, currentPoint, edgeType, coord))
                 ELSE withCurrent
         IN ClipLoop_CurrentFirst(subjectPolygon, edgeType, coord, i + 1,
                                  currentPoint, withCrossing)

RECURSIVE ClipLoop(_, _, _, _, _, _)
ClipLoop(subjectPolygon, edgeType, coord, i, prevPoint, outputList) ==
    IF i > Len(subjectPolygon) THEN outputList
    ELSE LET currentPoint == subjectPolygon[i]
             currentPointInside == insideCheck(currentPoint, edgeType, coord)
             prevPointInside == insideCheck(prevPoint, edgeType, coord)
             withCrossing ==
                 IF currentPointInside # prevPointInside
                 THEN Append(outputList,
                             intersectSH(prevPoint, currentPoint, edgeType, coord))
                 ELSE outputList
             withCurrent ==
                 IF currentPointInside THEN Append(withCrossing, currentPoint)
                 ELSE withCrossing
         IN ClipLoop(subjectPolygon, edgeType, coord, i + 1, currentPoint, withCurrent)

clipPolygonAgainstEdgeSH(subjectPolygon, edgeType, coord) ==
    IF Len(subjectPolygon) = 0 THEN <<>>
    ELSE ClipLoop(subjectPolygon, edgeType, coord, 1,
                  subjectPolygon[Len(subjectPolygon)], <<>>)

Rect(x, y, width, height) == [x |-> x, y |-> y, width |-> width, height |-> height]

(* Mutant of clipPolygonSutherlandHodgman: the length of the list is not  *)
(* tested.                                                                 *)
clipPolygonSutherlandHodgman_NoLengthTest(subjectPolygon, bounds) ==
    IF bounds = NullObj THEN <<>>
    ELSE LET minX == bounds.x
             minY == bounds.y
             maxX == RAdd(minX, RMax(Zero, bounds.width))
             maxY == RAdd(minY, RMax(Zero, bounds.height))
         IN clipPolygonAgainstEdgeSH(
                clipPolygonAgainstEdgeSH(
                    clipPolygonAgainstEdgeSH(
                        clipPolygonAgainstEdgeSH(subjectPolygon, "left", minX),
                        "right", maxX),
                    "top", minY),
                "bottom", maxY)

clipPolygonSutherlandHodgman(subjectPolygon, bounds) ==
    IF bounds = NullObj \/ Len(subjectPolygon) < 3 THEN <<>>
    ELSE LET minX == bounds.x
             minY == bounds.y
             maxX == RAdd(minX, RMax(Zero, bounds.width))
             maxY == RAdd(minY, RMax(Zero, bounds.height))
         IN clipPolygonAgainstEdgeSH(
                clipPolygonAgainstEdgeSH(
                    clipPolygonAgainstEdgeSH(
                        clipPolygonAgainstEdgeSH(subjectPolygon, "left", minX),
                        "right", maxX),
                    "top", minY),
                "bottom", maxY)

---------------------------------------------------------------------------
(* calculateAreas: a closure over polygonPoints, initialSqM,               *)
(* splitDirection, splitNaturalX and splitNaturalY; imgDims is its         *)
(* argument (the useMemo passes imageDimensions).                          *)

AreaThresholdDen == 1000000   \* 1e-6 (pixel-area sum that may be divided by)

ZeroResult ==
    [area1 |-> Zero, area2 |-> Zero, label1 |-> "Area 1", label2 |-> "Area 2",
     subPoly1 |-> <<>>, subPoly2 |-> <<>>]

(* Mutant of areaRatio: the share of the first part is taken of the       *)
(* second part's area instead of the sum.                                  *)
areaRatio_OverSecond(area1_pixels, area2_pixels) ==
    IF GtInv(area2_pixels, AreaThresholdDen)
    THEN RDiv(area1_pixels, area2_pixels)
    ELSE IF GtInv(area1_pixels, AreaThresholdDen) THEN One ELSE Zero

(* Mutant of areaRatio: the ratio is the second part's share.              *)
areaRatio_Swapped(area1_pixels, area2_pixels) ==
    LET total_pixels == RAdd(area1_pixels, area2_pixels)
    IN IF GtInv(total_pixels, AreaThresholdDen)
       THEN RDiv(area2_pixels, total_pixels)
       ELSE IF GtInv(area2_pixels, AreaThresholdDen) THEN One ELSE Zero

(* Mutant of areaRatio: the fallback of a zero total is 1.0.               *)
areaRatio_FallbackOne(area1_pixels, area2_pixels) ==
    LET total_pixels == RAdd(area1_pixels, area2_pixels)
    IN IF GtInv(total_pixels, AreaThresholdDen)
       THEN RDiv(area1_pixels, total_pixels)
       ELSE One

areaRatio(area1_pixels, area2_pixels) ==
    LET total_pixels == RAdd(area1_pixels, area2_pixels)
    IN IF GtInv(total_pixels, AreaThresholdDen)
       THEN RDiv(area1_pixels, total_pixels)
       ELSE IF GtInv(area1_pixels, AreaThresholdDen) THEN One ELSE Zero

(* Mutant of splitResult: the second area is scaled by the second part's  *)
(* own ratio instead of 1 - ratio (both ratios are 0 for zero areas).      *)
splitResult_SecondByRatio(validInitialSqM, clipBounds1, clipBounds2, label1, label2) ==
    LET subPolygon1 == clipPolygonSutherlandHodgman(polygonPoints, clipBounds1)
        subPolygon2 == clipPolygonSutherlandHodgman(polygonPoints, clipBounds2)
        area1_pixels == calculatePolygonArea(subPolygon1)
        area2_pixels == calculatePolygonArea(subPolygon2)
        ratio == areaRatio(area1_pixels, area2_pixels)
        ratio2 == areaRatio(area2_pixels, area1_pixels)
    IN [area1 |-> RMul(validInitialSqM, ratio),
        area2 |-> RMul(validInitialSqM, ratio2),
        label1 |-> label1, label2 |-> label2,
        subPoly1 |-> subPolygon1, subPoly2 |-> subPolygon2]

(* Mutant of splitResult: the two labels are exchanged.                    *)
splitResult_LabelsExchanged(validInitialSqM, clipBounds1, clipBounds2, label1, label2) ==
    LET subPolygon1 == clipPolygonSutherlandHodgman(polygonPoints, clipBounds1)
        subPolygon2 == clipPolygonSutherlandHodgman(polygonPoints, clipBounds2)
        ratio == areaRatio(calculatePolygonArea(subPolygon1),
                           calculatePolygonArea(subPolygon2))
    IN [area1 |-> RMul(validInitialSqM, ratio),
        area2 |-> RMul(validInitialSqM, RSub(One, ratio)),
        label1 |-> label2, label2 |-> label1,
        subPoly1 |-> subPolygon1, subPoly2 |-> subPolygon2]

splitResult(validInitialSqM, clipBounds1, clipBounds2, label1, label2) ==
    LET subPolygon1 == clipPolygonSutherlandHodgman(polygonPoints, clipBounds1)
        subPolygon2 == clipPolygonSutherlandHodgman(polygonPoints, clipBounds2)
        ratio == areaRatio(calculatePolygonArea(subPolygon1),
                           calculatePolygonArea(subPolygon2))
    IN [area1 |-> RMul(validInitialSqM, ratio),
        area2 |-> RMul(validInitialSqM, RSub(One, ratio)),
        label1 |-> label1, label2 |-> label2,
        subPoly1 |-> subPolygon1, subPoly2 |-> subPolygon2]

(* Mutant of calculateAreas: the guard does not test the total area.       *)
calculateAreas_NoTotalTest(imgDims) ==
    LET validInitialSqM == RMax(Zero, initialSqM)
        isSplitDefined == splitNaturalX # Null \/ splitNaturalY # Null
    IN IF ~isSplitDefined \/ Len(polygonPoints) < 3 \/ imgDims = NullObj
       THEN ZeroResult
       ELSE IF splitDirection = "vertical" /\ splitNaturalX # Null
       THEN splitResult(validInitialSqM,
                Rect(Zero, Zero, splitNaturalX, imgDims.height),
                Rect(splitNaturalX, Zero, RSub(imgDims.width, splitNaturalX),
                     imgDims.height),
                "Left Area", "Right Area")
       ELSE IF splitDirection = "horizontal" /\ splitNaturalY # Null
       THEN splitResult(validInitialSqM,
                Rect(Zero, Zero, imgDims.width, splitNaturalY),
                Rect(Zero, splitNaturalY, imgDims.width,
                     RSub(imgDims.height, splitNaturalY)),
                "Top Area", "Bottom Area")
       ELSE ZeroResult

calculateAreas(imgDims) ==
    LET validInitialSqM == RMax(Zero, initialSqM)
        isSplitDefined == splitNaturalX # Null \/ splitNaturalY # Null
    IN IF ~isSplitDefined \/ Len(polygonPoints) < 3
          \/ RLe(validInitialSqM, Zero) \/ imgDims = NullObj
       THEN ZeroResult
       ELSE IF splitDirection = "vertical" /\ splitNaturalX # Null
       THEN splitResult(validInitialSqM,
                Rect(Zero, Zero, splitNaturalX, imgDims.height),
                Rect(splitNaturalX, Zero, RSub(imgDims.width, splitNaturalX),
                     imgDims.height),
                "Left Area", "Right Area")
       ELSE IF splitDirection = "horizontal" /\ splitNaturalY # Null
       THEN splitResult(validInitialSqM,
                Rect(Zero, Zero, imgDims.width, splitNaturalY),
                Rect(Zero, splitNaturalY, imgDims.width,
                     RSub(imgDims.height, splitNaturalY)),
                "Top Area", "Bottom Area")
       ELSE ZeroResult

---------------------------------------------------------------------------
(* getPolygonBounds (src/src/App.tsx): the bounding box of a vertex list.  *)

RECURSIVE BoundsLoop(_, _, _, _, _, _)
BoundsLoop(polygon, i, minX, minY, maxX, maxY) ==
    IF i > Len(polygon)
    THEN Rect(minX, minY, RSub(maxX, minX), RSub(maxY, minY))
    ELSE BoundsLoop(polygon, i + 1,
                    IF RLt(polygon[i].x, minX) THEN polygon[i].x ELSE minX,
                    IF RLt(polygon[i].y, minY) THEN polygon[i].y ELSE minY,
                    IF RGt(polygon[i].x, maxX) THEN polygon[i].x ELSE maxX,
                    IF RGt(polygon[i].y, maxY) THEN polygon[i].y ELSE maxY)

getPolygonBounds(polygon) ==
    IF Len(polygon) = 0 THEN NullObj
    ELSE BoundsLoop(polygon, 2, polygon[1].x, polygon[1].y,
                    polygon[1].x, polygon[1].y)

---------------------------------------------------------------------------
(* The inputs the operations are applied to.                               *)

MaxCoord == 2    \* grid vertices have integer coordinates 0 .. MaxCoord
MaxVerts == 3    \* grid vertex lists have 0 .. MaxVerts vertices

Grid == {IPt(i, j) : i \in 0..MaxCoord, j \in 0..MaxCoord}

(* Every vertex list over the grid, the degenerate and the                 *)
(* self-intersecting ones included.                                        *)
VertexLists == UNION {[1..n -> Grid] : n \in 0..MaxVerts}

(* Axis-aligned rectangles with corners on the grid, in ring order:        *)
(* both windings, every starting corner.                                   *)
Rotate(seq, k) == [i \in 1..Len(seq) |-> seq[((i + k - 1) % Len(seq)) + 1]]
Reverse(seq) == [i \in 1..Len(seq) |-> seq[Len(seq) + 1 - i]]
Ring(x1, y1, x2, y2) == <<IPt(x1, y1), IPt(x2, y1), IPt(x2, y2), IPt(x1, y2)>>
RingOrders(ring) ==
    {Rotate(ring, k) : k \in 0..3} \cup {Rotate(Reverse(ring), k) : k \in 0..3}
Rectangles ==
    UNION {RingOrders(Ring(x1, y1, x2, y2)) :
             <<x1, y1, x2, y2>> \in {q \in (0..MaxCoord) \X (0..MaxCoord)
                                              \X (0..MaxCoord) \X (0..MaxCoord) :
                                        q[1] < q[3] /\ q[2] < q[4]}}

(* Named polygons: the examples of the specification and of the README,   *)
(* concave polygons, and polygons with features below the 1e-6 tolerance.  *)
Square100 == Ring(0, 0, 100, 100)
Square10 == Ring(0, 0, 10, 10)
Rect10x5 == Ring(0, 0, 10, 5)
Dart == <<IPt(0, 0), IPt(1, 1), IPt(0, 2), IPt(2, 1)>>
Chevron == <<IPt(0, 0), IPt(2, 0), IPt(1, 1), IPt(2, 3)>>
LShape == <<IPt(0, 0), IPt(2, 0), IPt(2, 1), IPt(1, 1), IPt(1, 2), IPt(0, 2)>>
CShape == <<IPt(0, 0), IPt(4, 0), IPt(4, 1), IPt(1, 1),
            IPt(1, 3), IPt(4, 3), IPt(4, 4), IPt(0, 4)>>
(* 2e-6 wide and 1 high: area 1e-6.                                        *)
ThinTriangle ==
    <<IPt(0, 0), Pt(Frac(2, 1000000), Zero), Pt(Frac(1, 1000000), One)>>
(* 2e-6 wide and 3 high, three quarters of it left of x = 1e-6.            *)
ThinWedge ==
    <<IPt(0, 0), Pt(Frac(2, 1000000), Zero), Pt(Zero, R(3))>>
(* 1e-3 by 1e-3: area 5e-7.                                                *)
TinyTriangle ==
    <<IPt(0, 0), Pt(Frac(1, 1000), Zero), Pt(Zero, Frac(1, 1000))>>
(* Two vertices 5e-7 and 1.5e-6 below the line y = 2.                      *)
NearEdgeTriangle ==
    <<Pt(R(2), Frac(4000001, 2000000)), Pt(Zero, Frac(4000003, 2000000)), IPt(1, 0)>>

ConcavePolygons == {Dart, Chevron, LShape, CShape}
SubTolerancePolygons == {ThinTriangle, ThinWedge, TinyTriangle, NearEdgeTriangle}
ExamplePolygons == {Square100, Square10, Rect10x5}

(* The interface state after construction (useState, part_001:133-144).    *)
InitUI ==
    /\ imageSrc = NullObj
    /\ isDefiningPolygon = FALSE
    /\ definedPolygonAreaPixels = Null
    /\ reader = 0

InitOthers ==
    /\ initialSqM = R(1000)
    /\ splitDirection = "vertical"
    /\ splitNaturalX = Null
    /\ splitNaturalY = Null
    /\ imageDimensions = NullObj
    /\ point = NullObj
    /\ clipBounds = NullObj
    /\ called = "none"
    /\ ret = NullObj
    /\ InitUI
    /\ polygonBounds = NullObj

---------------------------------------------------------------------------
(* SpecArea: calculatePolygonArea applied to a vertex list.                *)

AreaInputs ==
    VertexLists \cup Rectangles \cup ExamplePolygons \cup ConcavePolygons
        \cup SubTolerancePolygons

InitArea == polygonPoints \in AreaInputs /\ InitOthers

CallCalculatePolygonArea ==
    /\ called = "none"
    /\ called' = "calculatePolygonArea"
    /\ ret' = calculatePolygonArea(polygonPoints)
    /\ UNCHANGED <<polygonPoints, initialSqM, splitDirection, splitNaturalX,
                   splitNaturalY, imageDimensions, point, clipBounds,
                   uiVars, polygonBounds>>

NextArea == CallCalculatePolygonArea

SpecArea == InitArea /\ [][NextArea]_vars

---------------------------------------------------------------------------
(* SpecContains: isPointInPolygon applied to a point and a vertex list.    *)

ContainsInputs ==
    {l \in VertexLists : Len(l) < MaxVerts}
        \cup Rectangles \cup ExamplePolygons \cup ConcavePolygons

(* Points on the half-integer grid, from 1/2 outside the grid on each      *)
(* side, and the three points of the specification's example.              *)
HalfSteps == {Frac(i, 2) : i \in -1..(2 * MaxCoord + 1)}
TestPoints ==
    {Pt(x, y) : x \in HalfSteps, y \in HalfSteps}
        \cup {IPt(5, 5), IPt(15, 5), IPt(0, 5), IPt(10, 5), IPt(15, 10)}

InitContains == polygonPoints \in ContainsInputs /\ InitOthers

CallIsPointInPolygon ==
    /\ called = "none"
    /\ \E p \in TestPoints :
          /\ point' = p
          /\ ret' = isPointInPolygon(p, polygonPoints)
    /\ called' = "isPointInPolygon"
    /\ UNCHANGED <<polygonPoints, initialSqM, splitDirection, splitNaturalX,
                   splitNaturalY, imageDimensions, clipBounds,
                   uiVars, polygonBounds>>

NextContains == CallIsPointInPolygon

SpecContains == InitContains /\ [][NextContains]_vars

---------------------------------------------------------------------------
(* SpecClip: clipPolygonSutherlandHodgman applied to a vertex list and a   *)
(* window, and to the two halves of the list's bounding box.               *)

(* The grid lists are taken up to rotation: each starts at its least      *)
(* vertex (the rectangles come with every starting corner).                *)
PtLe(a, b) == RLt(a.x, b.x) \/ (a.x = b.x /\ RLe(a.y, b.y))
LeastFirst(l) == \A i \in 1..Len(l) : PtLe(l[1], l[i])

ClipInputs ==
    {l \in VertexLists : LeastFirst(l)}
        \cup Rectangles \cup ExamplePolygons \cup ConcavePolygons
        \cup SubTolerancePolygons

IRect(x, y, width, height) == Rect(R(x), R(y), R(width), R(height))

(* Windows: inside, across and beside the grid, larger than the grid, of   *)
(* zero and of negative extent, and no window at all.                      *)
ClipWindows ==
    {IRect(0, 0, 1, 1), IRect(0, 0, 2, 2), IRect(1, 0, 1, 2), IRect(0, 1, 2, 1),
     IRect(2, 1, 1, 1), IRect(-1, -1, 5, 5), IRect(0, 0, 10, 10),
     IRect(0, 1, 0, 0), IRect(1, 0, 0, 2), IRect(1, 1, -1, 1),
     Rect(Frac(1, 2), Frac(1, 2), One, One), NullObj}

(* The polygons with sub-tolerance features are clipped with the window    *)
(* their feature refers to.                                                *)
WindowsFor(polygon) ==
    IF polygon = ThinTriangle
    THEN {IRect(0, 0, 2, 2), Rect(Frac(1, 1000000), Zero, Zero, R(2))}
    ELSE IF polygon \in SubTolerancePolygons
    THEN {IRect(0, 0, 2, 2)}
    ELSE ClipWindows

(* Split positions: the half-integer grid, and the middle of the thin      *)
(* triangle.                                                               *)
SplitsFor(polygon) ==
    IF polygon \in {ThinTriangle, ThinWedge} THEN {Frac(1, 1000000)} ELSE HalfSteps

InitClip == polygonPoints \in ClipInputs /\ InitOthers

CallClipPolygonSutherlandHodgman ==
    /\ called = "none"
    /\ \E b \in WindowsFor(polygonPoints) :
          /\ clipBounds' = b
          /\ ret' = clipPolygonSutherlandHodgman(polygonPoints, b)
    /\ called' = "clipPolygonSutherlandHodgman"
    /\ UNCHANGED <<polygonPoints, initialSqM, splitDirection, splitNaturalX,
                   splitNaturalY, imageDimensions, point,
                   uiVars, polygonBounds>>

(* The two parts of a bounding box split at x.                             *)
LeftPart(b, x) == Rect(b.x, b.y, RSub(x, b.x), b.height)
RightPart(b, x) == Rect(x, b.y, RSub(RAdd(b.x, b.width), x), b.height)

(* The polygon is clipped with the left and with the right part of its     *)
(* bounding box; ret holds the two clipped polygons.                       *)
CallClipBoundingBoxParts ==
    /\ called = "none"
    /\ Len(polygonPoints) > 0
    /\ LET b == getPolygonBounds(polygonPoints)
       IN \E x \in SplitsFor(polygonPoints) :
             /\ RLt(b.x, x) /\ RLt(x, RAdd(b.x, b.width))
             /\ splitNaturalX' = x
             /\ clipBounds' = b
             /\ ret' = <<clipPolygonSutherlandHodgman(polygonPoints, LeftPart(b, x)),
                         clipPolygonSutherlandHodgman(polygonPoints, RightPart(b, x))>>
    /\ called' = "clipBoundingBoxParts"
    /\ UNCHANGED <<polygonPoints, initialSqM, splitDirection, splitNaturalY,
                   imageDimensions, point,
                   uiVars, polygonBounds>>

NextClip == CallClipPolygonSutherlandHodgman \/ CallClipBoundingBoxParts

SpecClip == InitClip /\ [][NextClip]_vars

---------------------------------------------------------------------------
(* SpecAreas: calculateAreas applied to the state it closes over and to    *)
(* the extent of the image.                                                *)

AreasInputs ==
    {l \in VertexLists : LeastFirst(l)}
        \cup Rectangles \cup ExamplePolygons \cup ConcavePolygons
        \cup {ThinTriangle, ThinWedge, TinyTriangle}

Dims(width, height) == [width |-> R(width), height |-> R(height)]

(* The extents that contain the polygon: 100 x 100 for the examples, the   *)
(* grid with a margin of 2 for the others.                                 *)
ExtentsFor(polygon) ==
    IF polygon \in ExamplePolygons
    THEN {Dims(100, 100)}
    ELSE {Dims(MaxCoord + 2, MaxCoord + 2)}

(* Split coordinates inside the extent: every half-integer across the     *)
(* grid for a vertical split, two of them for a horizontal one.            *)
SplitsAlong(polygon, direction) ==
    IF polygon \in ExamplePolygons THEN {R(0), R(5), R(30), R(100)}
    ELSE IF polygon \in {ThinTriangle, ThinWedge} /\ direction = "vertical"
    THEN {Frac(1, 1000000), Zero}
    ELSE IF direction = "vertical"
    THEN {h \in HalfSteps : RGe(h, Zero) /\ RLe(h, R(MaxCoord))}
    ELSE {Frac(1, 2), One}

(* A split coordinate is held for the current direction only               *)
(* (handleImageClick, handleChangeSplitDirection).                         *)
SplitState(direction, s) ==
    /\ splitDirection = direction
    /\ splitNaturalX = IF direction = "vertical" THEN s ELSE Null
    /\ splitNaturalY = IF direction = "vertical" THEN Null ELSE s

InitAreas ==
    /\ polygonPoints \in AreasInputs
    /\ \/ /\ initialSqM = R(1000)
          /\ imageDimensions \in ExtentsFor(polygonPoints)
          /\ \E direction \in {"vertical", "horizontal"} :
                \E s \in SplitsAlong(polygonPoints, direction) \cup {Null} :
                    SplitState(direction, s)
       \/ /\ initialSqM \in {R(7), Zero, R(-5)}
          /\ imageDimensions \in ExtentsFor(polygonPoints)
          /\ SplitState("vertical", One)
       \/ /\ initialSqM = R(1000)
          /\ imageDimensions = NullObj
          /\ SplitState("horizontal", One)
    /\ point = NullObj
    /\ clipBounds = NullObj
    /\ called = "none"
    /\ ret = NullObj
    /\ InitUI
    /\ polygonBounds = NullObj

(* Mutant of CallCalculateAreas: the first clip writes its output into     *)
(* the list it was given (polygonPoints) instead of a new array.           *)
CallCalculateAreas_ClipsInPlace ==
    /\ called = "none"
    /\ ret' = calculateAreas(imageDimensions)
    /\ called' = "calculateAreas"
    /\ polygonPoints' = ret'.subPoly1
    /\ UNCHANGED <<initialSqM, splitDirection, splitNaturalX, splitNaturalY,
                   imageDimensions, point, clipBounds,
                   uiVars, polygonBounds>>

CallCalculateAreas ==
    /\ called = "none"
    /\ ret' = calculateAreas(imageDimensions)
    /\ called' = "calculateAreas"
    /\ UNCHANGED <<polygonPoints, initialSqM, splitDirection, splitNaturalX,
                   splitNaturalY, imageDimensions, point, clipBounds,
                   uiVars, polygonBounds>>

NextAreas == CallCalculateAreas

SpecAreas == InitAreas /\ [][NextAreas]_vars

---------------------------------------------------------------------------
(* The divisors of the geometry operations: for each operation, the set of  *)
(* the values it divides by on a given input, collected along the same     *)
(* path as the operation takes.                                            *)

(* isPointInPolygon divides by yj - yi where it evaluates the x-intercept: *)
(* for an edge that is not horizontal, after (yi > y) !== (yj > y) && ...  *)
RECURSIVE RayCastDivisors(_, _, _)
RayCastDivisors(p, polygon, i) ==
    IF i > Len(polygon) THEN {}
    ELSE LET j == IF i = 1 THEN Len(polygon) ELSE i - 1
             xi == polygon[i].x
             yi == polygon[i].y
             xj == polygon[j].x
             yj == polygon[j].y
         IN IF yj = yi
            THEN IF p.y = yi /\ RGe(p.x, RMin(xi, xj)) /\ RLe(p.x, RMax(xi, xj))
                 THEN {}
                 ELSE RayCastDivisors(p, polygon, i + 1)
            ELSE (IF RGt(yi, p.y) # RGt(yj, p.y) THEN {RSub(yj, yi)} ELSE {})
                     \cup RayCastDivisors(p, polygon, i + 1)

isPointInPolygonDivisors(p, polygon) ==
    IF Len(polygon) < 3 THEN {} ELSE RayCastDivisors(p, polygon, 1)

(* intersectSH divides by p2.x - p1.x (left, right) or p2.y - p1.y (top,   *)
(* bottom) unless its absolute value is below 1e-9.                        *)
intersectSHDivisors(p1, p2, edgeType) ==
    IF edgeType \in {"left", "right"}
    THEN IF LtInv(RAbs(RSub(p2.x, p1.x)), ParallelDen) THEN {}
         ELSE {RSub(p2.x, p1.x)}
    ELSE IF LtInv(RAbs(RSub(p2.y, p1.y)), ParallelDen) THEN {}
         ELSE {RSub(p2.y, p1.y)}

RECURSIVE ClipLoopDivisors(_, _, _, _, _)
ClipLoopDivisors(subjectPolygon, edgeType, coord, i, prevPoint) ==
    IF i > Len(subjectPolygon) THEN {}
    ELSE LET currentPoint == subjectPolygon[i]
         IN (IF insideCheck(currentPoint, edgeType, coord)
                   # insideCheck(prevPoint, edgeType, coord)
             THEN intersectSHDivisors(prevPoint, currentPoint, edgeType)
             ELSE {})
            \cup ClipLoopDivisors(subjectPolygon, edgeType, coord, i + 1, currentPoint)

clipPolygonAgainstEdgeSHDivisors(subjectPolygon, edgeType, coord) ==
    IF Len(subjectPolygon) = 0 THEN {}
    ELSE ClipLoopDivisors(subjectPolygon, edgeType, coord, 1,
                          subjectPolygon[Len(subjectPolygon)])

clipPolygonSutherlandHodgmanDivisors(subjectPolygon, bounds) ==
    IF bounds = NullObj \/ Len(subjectPolygon) < 3 THEN {}
    ELSE LET minX == bounds.x
             minY == bounds.y
             maxX == RAdd(minX, RMax(Zero, bounds.width))
             maxY == RAdd(minY, RMax(Zero, bounds.height))
             l == clipPolygonAgainstEdgeSH(subjectPolygon, "left", minX)
             r == clipPolygonAgainstEdgeSH(l, "right", maxX)
             t == clipPolygonAgainstEdgeSH(r, "top", minY)
         IN clipPolygonAgainstEdgeSHDivisors(subjectPolygon, "left", minX)
              \cup clipPolygonAgainstEdgeSHDivisors(l, "right", maxX)
              \cup clipPolygonAgainstEdgeSHDivisors(r, "top", minY)
              \cup clipPolygonAgainstEdgeSHDivisors(t, "bottom", maxY)

(* The two windows calculateAreas clips with, and the divisors of the two  *)
(* clips.                                                                  *)
calculateAreasClipDivisors(imgDims) ==
    LET isSplitDefined == splitNaturalX # Null \/ splitNaturalY # Null
    IN IF ~isSplitDefined \/ Len(polygonPoints) < 3
          \/ RLe(RMax(Zero, initialSqM), Zero) \/ imgDims = NullObj
       THEN {}
       ELSE IF splitDirection = "vertical" /\ splitNaturalX # Null
       THEN clipPolygonSutherlandHodgmanDivisors(polygonPoints,
                Rect(Zero, Zero, splitNaturalX, imgDims.height))
            \cup clipPolygonSutherlandHodgmanDivisors(polygonPoints,
                Rect(splitNaturalX, Zero, RSub(imgDims.width, splitNaturalX),
                     imgDims.height))
       ELSE IF splitDirection = "horizontal" /\ splitNaturalY # Null
       THEN clipPolygonSutherlandHodgmanDivisors(polygonPoints,
                Rect(Zero, Zero, imgDims.width, splitNaturalY))
            \cup clipPolygonSutherlandHodgmanDivisors(polygonPoints,
                Rect(Zero, splitNaturalY, imgDims.width,
                     RSub(imgDims.height, splitNaturalY)))
       ELSE {}

(* Mutant of areaRatioDivisors: the sum is divided by whenever it is       *)
(* positive.                                                               *)
areaRatioDivisors_AnyPositive(area1_pixels, area2_pixels) ==
    LET total_pixels == RAdd(area1_pixels, area2_pixels)
    IN IF RGt(total_pixels, Zero) THEN {total_pixels} ELSE {}

(* calculateAreas divides by total_pixels in the first branch of the       *)
(* ratio only.                                                             *)
areaRatioDivisors(area1_pixels, area2_pixels) ==
    LET total_pixels == RAdd(area1_pixels, area2_pixels)
    IN IF GtInv(total_pixels, AreaThresholdDen) THEN {total_pixels} ELSE {}

---------------------------------------------------------------------------
(* SpecGeometry: the three operations that divide, applied to the same     *)
(* inputs: grid triangles, rectangles and the named polygons, with a       *)
(* split at 1 in either direction.                                         *)

GeometryInputs ==
    {l \in VertexLists : Len(l) = 3 /\ LeastFirst(l)}
        \cup Rectangles \cup ExamplePolygons \cup ConcavePolygons
        \cup {ThinTriangle, TinyTriangle}

InitGeometry ==
    /\ polygonPoints \in GeometryInputs
    /\ initialSqM = R(1000)
    /\ imageDimensions \in ExtentsFor(polygonPoints)
    /\ \E direction \in {"vertical", "horizontal"} : SplitState(direction, One)
    /\ point = NullObj
    /\ clipBounds = NullObj
    /\ called = "none"
    /\ ret = NullObj
    /\ InitUI
    /\ polygonBounds = NullObj

NextGeometry ==
    \/ CallIsPointInPolygon
    \/ CallClipPolygonSutherlandHodgman
    \/ CallCalculateAreas

SpecGeometry == InitGeometry /\ [][NextGeometry]_vars

---------------------------------------------------------------------------
(* SpecBoundingBox: calculateAreas of src/src/App.tsx, a closure over      *)
(* polygonPoints, initialSqM, splitDirection, splitNaturalX,               *)
(* splitNaturalY and polygonBounds, applied to the states of that          *)
(* component.                                                              *)

AppTsx_ZeroResult ==
    [area1 |-> Zero, area2 |-> Zero, label1 |-> "Area 1", label2 |-> "Area 2"]

(* Mutant of AppTsx_ratio: the split coordinate is taken from the origin   *)
(* of the image instead of the corner of the bounding box.                 *)
AppTsx_ratio_FromOrigin(split, corner, extent) ==
    IF RGt(extent, Zero)
    THEN RDiv(RMax(Zero, RMin(split, extent)), extent)
    ELSE Zero

(* relativeSplit, clampedRelativeSplit and ratio (App.tsx:214-216 and      *)
(* 221-223) for the split coordinate, the corner and the extent of the     *)
(* bounding box along the split's axis.                                    *)
AppTsx_ratio(split, corner, extent) ==
    IF RGt(extent, Zero)
    THEN RDiv(RMax(Zero, RMin(RSub(split, corner), extent)), extent)
    ELSE Zero

AppTsx_result(ratio, label1, label2) ==
    [area1 |-> RMul(initialSqM, ratio),
     area2 |-> RMul(initialSqM, RSub(One, ratio)),
     label1 |-> label1, label2 |-> label2]

AppTsx_calculateAreas ==
    LET isSplitDefined == splitNaturalX # Null \/ splitNaturalY # Null
    IN IF ~isSplitDefined \/ Len(polygonPoints) < 3
          \/ RLe(initialSqM, Zero) \/ polygonBounds = NullObj
       THEN AppTsx_ZeroResult
       ELSE IF splitDirection = "vertical" /\ splitNaturalX # Null
       THEN AppTsx_result(
                AppTsx_ratio(splitNaturalX, polygonBounds.x, polygonBounds.width),
                "Left Area", "Right Area")
       ELSE IF splitDirection = "horizontal" /\ splitNaturalY # Null
       THEN AppTsx_result(
                AppTsx_ratio(splitNaturalY, polygonBounds.y, polygonBounds.height),
                "Top Area", "Bottom Area")
       ELSE AppTsx_ZeroResult

BoundingBoxInputs ==
    {l \in VertexLists : LeastFirst(l)}
        \cup Rectangles \cup ExamplePolygons \cup ConcavePolygons

(* Split coordinates a click inside the polygon can store: within the      *)
(* bounding box, on the half-integer grid (multiples of 5 for the          *)
(* examples).                                                              *)
SplitsWithin(corner, extent) ==
    {h \in HalfSteps \cup {R(5 * k) : k \in 0..20} :
        RLe(corner, h) /\ RLe(h, RAdd(corner, extent))}

(* The states of the component of App.tsx: a finished polygon with its     *)
(* bounding box and no split line, or a split line stored by a click in    *)
(* either direction (the radio buttons store the direction alone,          *)
(* App.tsx:320, 329); or no finished polygon, no bounding box and no       *)
(* split line.                                                             *)
InitBoundingBox ==
    /\ polygonPoints \in BoundingBoxInputs
    /\ \/ /\ Len(polygonPoints) >= 3
          /\ polygonBounds = getPolygonBounds(polygonPoints)
          /\ \/ /\ initialSqM = R(1264)
                /\ splitDirection \in {"vertical", "horizontal"}
                /\ \/ splitNaturalX = Null /\ splitNaturalY = Null
                   \/ /\ splitNaturalX \in SplitsWithin(polygonBounds.x,
                                                        polygonBounds.width)
                      /\ splitNaturalY = Null
                   \/ /\ splitNaturalX = Null
                      /\ splitNaturalY \in SplitsWithin(polygonBounds.y,
                                                        polygonBounds.height)
             \/ /\ initialSqM \in {R(7), Zero, R(-5)}
                /\ splitDirection = "vertical"
                /\ splitNaturalX = polygonBounds.x
                /\ splitNaturalY = Null
       \/ /\ polygonBounds = NullObj
          /\ initialSqM = R(1264)
          /\ splitDirection \in {"vertical", "horizontal"}
          /\ splitNaturalX = Null
          /\ splitNaturalY = Null
    /\ imageDimensions \in ExtentsFor(polygonPoints)
    /\ point = NullObj
    /\ clipBounds = NullObj
    /\ called = "none"
    /\ ret = NullObj
    /\ InitUI

CallAppTsxCalculateAreas ==
    /\ called = "none"
    /\ ret' = AppTsx_calculateAreas
    /\ called' = "App.tsx calculateAreas"
    /\ UNCHANGED <<polygonPoints, initialSqM, splitDirection, splitNaturalX,
                   splitNaturalY, imageDimensions, point, clipBounds,
                   uiVars, polygonBounds>>

NextBoundingBox == CallAppTsxCalculateAreas

SpecBoundingBox == InitBoundingBox /\ [][NextBoundingBox]_vars

---------------------------------------------------------------------------
(* Spec: the component App of part_001 as a state machine.  Each handler   *)
(* is one action.  A button that is rendered disabled cannot call its      *)
(* handler, so the `disabled` expressions of the JSX are guards.  The img  *)
(* element exists only while imageSrc is set.  The variables of the        *)
(* geometry actions (point, clipBounds, called, ret) and the               *)
(* polygonBounds of src/src/App.tsx are not part of the component and      *)
(* stay as they are.                                                       *)

MaxReads == 1    \* FileReader reads in flight at the same time

Image == [url |-> "data"]

(* The natural sizes of the images the user loads. *)
ImageSizes == {Dims(MaxCoord, MaxCoord), Dims(1, 1)}

(* The sizes in CSS pixels the img element is laid out with. *)
DisplayedSizes == 1..MaxCoord

appVars == <<polygonPoints, initialSqM, splitDirection, splitNaturalX,
             splitNaturalY, imageDimensions, uiVars>>

Init ==
    /\ initialSqM = R(1000)
    /\ imageSrc = NullObj
    /\ splitNaturalX = Null
    /\ splitNaturalY = Null
    /\ splitDirection = "vertical"
    /\ imageDimensions = NullObj
    /\ polygonPoints = <<>>
    /\ isDefiningPolygon = FALSE
    /\ definedPolygonAreaPixels = Null
    /\ reader = 0
    /\ point = NullObj
    /\ clipBounds = NullObj
    /\ called = "none"
    /\ ret = NullObj
    /\ polygonBounds = NullObj

callVars == <<point, clipBounds, called, ret, polygonBounds>>

(* Mutant of handleStartDefining: the split line is kept.                 *)
handleStartDefining_KeepsSplit ==
    /\ imageSrc # NullObj /\ ~isDefiningPolygon
    /\ isDefiningPolygon' = TRUE
    /\ polygonPoints' = <<>>
    /\ definedPolygonAreaPixels' = Null
    /\ UNCHANGED <<initialSqM, splitDirection, splitNaturalX, splitNaturalY,
                   imageDimensions, imageSrc, reader>>
    /\ UNCHANGED callVars

handleStartDefining ==
    /\ imageSrc # NullObj /\ ~isDefiningPolygon
    /\ isDefiningPolygon' = TRUE
    /\ polygonPoints' = <<>>
    /\ splitNaturalX' = Null
    /\ splitNaturalY' = Null
    /\ definedPolygonAreaPixels' = Null
    /\ UNCHANGED <<initialSqM, splitDirection, imageDimensions, imageSrc, reader>>
    /\ UNCHANGED callVars

(* Mutant of handleFinishDefining: the polygon is finished with any        *)
(* number of points and the list is kept.                                  *)
handleFinishDefining_AnyLength ==
    /\ isDefiningPolygon
    /\ isDefiningPolygon' = FALSE
    /\ definedPolygonAreaPixels' = calculatePolygonArea(polygonPoints)
    /\ UNCHANGED <<polygonPoints, initialSqM, splitDirection, splitNaturalX,
                   splitNaturalY, imageDimensions, imageSrc, reader>>
    /\ UNCHANGED callVars

handleFinishDefining ==
    /\ isDefiningPolygon /\ Len(polygonPoints) >= 3
    /\ isDefiningPolygon' = FALSE
    /\ IF Len(polygonPoints) >= 3
       THEN /\ definedPolygonAreaPixels' = calculatePolygonArea(polygonPoints)
            /\ UNCHANGED polygonPoints
       ELSE /\ polygonPoints' = <<>>
            /\ definedPolygonAreaPixels' = Null
    /\ UNCHANGED <<initialSqM, splitDirection, splitNaturalX, splitNaturalY,
                   imageDimensions, imageSrc, reader>>
    /\ UNCHANGED callVars

(* Mutant of ResetPolygon: the horizontal split line is kept.             *)
ResetPolygon_KeepsSplitY ==
    /\ isDefiningPolygon' = FALSE
    /\ polygonPoints' = <<>>
    /\ splitNaturalX' = Null
    /\ UNCHANGED splitNaturalY
    /\ definedPolygonAreaPixels' = Null

(* The state changes of handleResetPolygon, which handleImageLoad,         *)
(* handleImageError and the file handlers call as well.                    *)
ResetPolygon ==
    /\ isDefiningPolygon' = FALSE
    /\ polygonPoints' = <<>>
    /\ splitNaturalX' = Null
    /\ splitNaturalY' = Null
    /\ definedPolygonAreaPixels' = Null

handleResetPolygon ==
    /\ Len(polygonPoints) # 0
    /\ ResetPolygon
    /\ UNCHANGED <<initialSqM, splitDirection, imageDimensions, imageSrc, reader>>
    /\ UNCHANGED callVars

(* Array.prototype.slice(start, end): a negative index counts from the     *)
(* end of the array; the indices of the source are 0-based.                *)
slice(array, start, end) ==
    SubSeq(array,
           (IF start < 0 THEN (IF Len(array) + start < 0 THEN 0 ELSE Len(array) + start)
            ELSE (IF start > Len(array) THEN Len(array) ELSE start)) + 1,
           IF end < 0 THEN (IF Len(array) + end < 0 THEN 0 ELSE Len(array) + end)
           ELSE (IF end > Len(array) THEN Len(array) ELSE end))

(* Mutant of undoPoint: the first point is dropped instead of the last.    *)
undoPoint_DropsFirst ==
    /\ IF isDefiningPolygon /\ Len(polygonPoints) > 0
       THEN /\ polygonPoints' = slice(polygonPoints, 1, Len(polygonPoints))
            /\ definedPolygonAreaPixels' =
                  IF Len(polygonPoints) <= 3 THEN Null
                  ELSE definedPolygonAreaPixels
       ELSE UNCHANGED <<polygonPoints, definedPolygonAreaPixels>>
    /\ UNCHANGED <<initialSqM, splitDirection, splitNaturalX, splitNaturalY,
                   imageDimensions, imageSrc, isDefiningPolygon, reader>>
    /\ UNCHANGED callVars

(* The body of handleUndoPoint. *)
undoPoint ==
    /\ IF isDefiningPolygon /\ Len(polygonPoints) > 0
       THEN /\ polygonPoints' = slice(polygonPoints, 0, -1)
            /\ definedPolygonAreaPixels' =
                  IF Len(polygonPoints) <= 3 THEN Null
                  ELSE definedPolygonAreaPixels
       ELSE UNCHANGED <<polygonPoints, definedPolygonAreaPixels>>
    /\ UNCHANGED <<initialSqM, splitDirection, splitNaturalX, splitNaturalY,
                   imageDimensions, imageSrc, isDefiningPolygon, reader>>
    /\ UNCHANGED callVars

(* The Undo button is disabled outside defining mode and with no point.    *)
handleUndoPoint ==
    /\ isDefiningPolygon /\ Len(polygonPoints) # 0
    /\ undoPoint

(* Mutant of handleImageLoad: the dimensions alone are stored, the         *)
(* polygon and the split line of the previous image are kept.              *)
handleImageLoad_KeepsPolygon ==
    /\ imageSrc # NullObj
    /\ \E natural \in ImageSizes : imageDimensions' = natural
    /\ UNCHANGED <<polygonPoints, splitNaturalX, splitNaturalY,
                   isDefiningPolygon, definedPolygonAreaPixels>>
    /\ UNCHANGED <<initialSqM, splitDirection, imageSrc, reader>>
    /\ UNCHANGED callVars

handleImageLoad ==
    /\ imageSrc # NullObj
    /\ \E natural \in ImageSizes : imageDimensions' = natural
    /\ ResetPolygon
    /\ UNCHANGED <<initialSqM, splitDirection, imageSrc, reader>>
    /\ UNCHANGED callVars

handleImageError ==
    /\ imageSrc # NullObj
    /\ imageSrc' = NullObj
    /\ imageDimensions' = NullObj
    /\ ResetPolygon
    /\ UNCHANGED <<initialSqM, splitDirection, reader>>
    /\ UNCHANGED callVars

(* The branch of handleImageClick outside defining mode.                   *)
(* Mutant of placeSplit: the click is not tested against the polygon.      *)
placeSplit_NoInsideTest(clickPoint) ==
    IF Len(polygonPoints) >= 3
    THEN LET clampedNaturalX ==
                 RMax(Zero, RMin(clickPoint.x, imageDimensions.width))
             clampedNaturalY ==
                 RMax(Zero, RMin(clickPoint.y, imageDimensions.height))
         IN IF splitDirection = "vertical"
            THEN splitNaturalX' = clampedNaturalX /\ splitNaturalY' = Null
            ELSE splitNaturalY' = clampedNaturalY /\ splitNaturalX' = Null
    ELSE UNCHANGED <<splitNaturalX, splitNaturalY>>

placeSplit(clickPoint) ==
    IF Len(polygonPoints) >= 3 /\ isPointInPolygon(clickPoint, polygonPoints)
    THEN LET clampedNaturalX ==
                 RMax(Zero, RMin(clickPoint.x, imageDimensions.width))
             clampedNaturalY ==
                 RMax(Zero, RMin(clickPoint.y, imageDimensions.height))
         IN IF splitDirection = "vertical"
            THEN splitNaturalX' = clampedNaturalX /\ splitNaturalY' = Null
            ELSE splitNaturalY' = clampedNaturalY /\ splitNaturalX' = Null
    ELSE UNCHANGED <<splitNaturalX, splitNaturalY>>

(* The natural coordinates a click on an image of the size natural can     *)
(* have: its offset from the element's corner in CSS pixels, scaled by the *)
(* ratio of the natural to the displayed size (part_001:207-215).          *)
NaturalClicksOn(natural) ==
    UNION {
      LET scaleX == RDiv(natural.width, R(displayedWidth))
          scaleY == RDiv(natural.height, R(displayedHeight))
      IN {Pt(RMul(R(offsetX), scaleX), RMul(R(offsetY), scaleY)) :
            offsetX \in 0..displayedWidth, offsetY \in 0..displayedHeight} :
      displayedWidth \in DisplayedSizes, displayedHeight \in DisplayedSizes}

ClicksOfSize == [natural \in ImageSizes |-> NaturalClicksOn(natural)]

NaturalClicks ==
    IF imageDimensions = NullObj THEN {} ELSE ClicksOfSize[imageDimensions]

(* handleImageClick for a click at the natural coordinates clickPoint.     *)
(* The list of vertices is capped at MaxVerts.                             *)
imageClick(clickPoint) ==
    /\ UNCHANGED <<initialSqM, splitDirection, imageDimensions, uiVars>>
    /\ UNCHANGED callVars
    /\ IF isDefiningPolygon
       THEN /\ Len(polygonPoints) < MaxVerts
            /\ polygonPoints' = Append(polygonPoints, clickPoint)
            /\ UNCHANGED <<splitNaturalX, splitNaturalY>>
       ELSE /\ UNCHANGED polygonPoints
            /\ placeSplit(clickPoint)

handleImageClick ==
    /\ imageSrc # NullObj
    /\ IF imageDimensions = NullObj
       THEN UNCHANGED vars
       ELSE \E clickPoint \in NaturalClicks : imageClick(clickPoint)

(* handleFileChange: no file chosen, a file that is not an image, or an    *)
(* image file, whose read is started.                                      *)
handleFileChange ==
    \E file \in {"none", "text/plain", "image/png"} :
        /\ IF file = "none"
           THEN UNCHANGED appVars
           ELSE IF file = "text/plain"
           THEN /\ imageSrc' = NullObj
                /\ imageDimensions' = NullObj
                /\ ResetPolygon
                /\ UNCHANGED <<initialSqM, splitDirection, reader>>
           ELSE /\ reader < MaxReads
                /\ reader' = reader + 1
                /\ UNCHANGED <<polygonPoints, initialSqM, splitDirection,
                               splitNaturalX, splitNaturalY, imageDimensions,
                               imageSrc, isDefiningPolygon,
                               definedPolygonAreaPixels>>
        /\ UNCHANGED callVars

(* Mutant of readerOnLoadEnd: the polygon of the previous image is kept    *)
(* until the new image has loaded.                                         *)
readerOnLoadEnd_KeepsPolygon ==
    /\ reader > 0
    /\ reader' = reader - 1
    /\ imageSrc' = Image
    /\ imageDimensions' = NullObj
    /\ UNCHANGED <<polygonPoints, splitNaturalX, splitNaturalY,
                   isDefiningPolygon, definedPolygonAreaPixels>>
    /\ UNCHANGED <<initialSqM, splitDirection>>
    /\ UNCHANGED callVars

(* reader.onloadend after a successful read.                               *)
readerOnLoadEnd ==
    /\ reader > 0
    /\ reader' = reader - 1
    /\ imageSrc' = Image
    /\ ResetPolygon
    /\ imageDimensions' = NullObj
    /\ UNCHANGED <<initialSqM, splitDirection>>
    /\ UNCHANGED callVars

(* reader.onerror, and the onloadend that follows it with a null result.   *)
readerOnError ==
    /\ reader > 0
    /\ reader' = reader - 1
    /\ imageSrc' = NullObj
    /\ imageDimensions' = NullObj
    /\ ResetPolygon
    /\ UNCHANGED <<initialSqM, splitDirection>>
    /\ UNCHANGED callVars

(* Mutant of handleChangeSplitDirection: the direction alone is stored.   *)
handleChangeSplitDirection_KeepsSplit ==
    /\ Len(polygonPoints) >= 3 /\ ~isDefiningPolygon
    /\ \E newDirection \in {"vertical", "horizontal"} :
          splitDirection' = newDirection
    /\ UNCHANGED <<polygonPoints, initialSqM, splitNaturalX, splitNaturalY,
                   imageDimensions, uiVars>>
    /\ UNCHANGED callVars

(* The radio buttons are rendered only for a finished polygon             *)
(* (part_001:443).                                                         *)
handleChangeSplitDirection ==
    /\ Len(polygonPoints) >= 3 /\ ~isDefiningPolygon
    /\ \E newDirection \in {"vertical", "horizontal"} :
          splitDirection' = newDirection
    /\ splitNaturalX' = Null
    /\ splitNaturalY' = Null
    /\ UNCHANGED <<polygonPoints, initialSqM, imageDimensions, uiVars>>
    /\ UNCHANGED callVars

(* The input values: the text of the field, Number(text), and whether      *)
(* Number(text) is NaN.                                                    *)
SqMInputs ==
    {[value |-> "", numValue |-> Zero, nan |-> FALSE],
     [value |-> "7", numValue |-> R(7), nan |-> FALSE],
     [value |-> "-5", numValue |-> R(-5), nan |-> FALSE],
     [value |-> "abc", numValue |-> Zero, nan |-> TRUE]}

handleInitialSqMChange ==
    /\ \E e \in SqMInputs :
          IF e.value = "" \/ (~e.nan /\ RGt(e.numValue, Zero))
          THEN initialSqM' = e.numValue
          ELSE initialSqM' = Zero
    /\ UNCHANGED <<polygonPoints, splitDirection, splitNaturalX, splitNaturalY,
                   imageDimensions, uiVars>>
    /\ UNCHANGED callVars

Next ==
    \/ handleStartDefining
    \/ handleFinishDefining
    \/ handleResetPolygon
    \/ handleUndoPoint
    \/ handleImageLoad
    \/ handleImageError
    \/ handleImageClick
    \/ handleFileChange
    \/ readerOnLoadEnd
    \/ readerOnError
    \/ handleChangeSplitDirection
    \/ handleInitialSqMChange

Spec == Init /\ [][Next]_vars

---------------------------------------------------------------------------
(* Reference geometry, used only to state the properties: orientation,     *)
(* segment intersection, simplicity, and the area of a lattice polygon by  *)
(* Pick's theorem (interior points + boundary points / 2 - 1).             *)

Cross(a, b, c) ==
    RSub(RMul(RSub(b.x, a.x), RSub(c.y, a.y)), RMul(RSub(b.y, a.y), RSub(c.x, a.x)))

Sign(r) == IF r[1] > 0 THEN 1 ELSE IF r[1] < 0 THEN -1 ELSE 0

Orient(a, b, c) == Sign(Cross(a, b, c))

Between(lo, v, hi) == RLe(RMin(lo, hi), v) /\ RLe(v, RMax(lo, hi))

OnSegment(a, b, p) ==
    Orient(a, b, p) = 0 /\ Between(a.x, p.x, b.x) /\ Between(a.y, p.y, b.y)

SegmentsMeet(a, b, c, d) ==
    \/ Orient(a, b, c) # Orient(a, b, d) /\ Orient(c, d, a) # Orient(c, d, b)
    \/ OnSegment(a, b, c) \/ OnSegment(a, b, d)
    \/ OnSegment(c, d, a) \/ OnSegment(c, d, b)

Succ(poly, i) == (i % Len(poly)) + 1

(* A simple polygon: at least 3 vertices, edges of non-zero length,        *)
(* consecutive edges meeting only in their common vertex, other edges not  *)
(* meeting at all.                                                         *)
IsSimple(poly) ==
    /\ Len(poly) >= 3
    /\ \A i \in 1..Len(poly) : poly[i] # poly[Succ(poly, i)]
    /\ \A i \in 1..Len(poly) :
          LET a == poly[i]
              b == poly[Succ(poly, i)]
              c == poly[Succ(poly, Succ(poly, i))]
          IN ~OnSegment(a, b, c) /\ ~OnSegment(b, c, a)
    /\ \A i, k \in 1..Len(poly) :
          (i < k /\ Succ(poly, i) # k /\ Succ(poly, k) # i)
              => ~SegmentsMeet(poly[i], poly[Succ(poly, i)],
                               poly[k], poly[Succ(poly, k)])

IsConvex(poly) ==
    \/ \A i \in 1..Len(poly) :
          Orient(poly[i], poly[Succ(poly, i)], poly[Succ(poly, Succ(poly, i))]) >= 0
    \/ \A i \in 1..Len(poly) :
          Orient(poly[i], poly[Succ(poly, i)], poly[Succ(poly, Succ(poly, i))]) <= 0

IsLattice(poly) == \A i \in 1..Len(poly) : poly[i].x[2] = 1 /\ poly[i].y[2] = 1

OnBoundary(p, poly) ==
    \E i \in 1..Len(poly) : OnSegment(poly[i], poly[Succ(poly, i)], p)

(* The edge from a to b crosses the horizontal ray from p to the right     *)
(* (half-open rule; p is not on the edge).                                 *)
RayCrosses(p, a, b) ==
    /\ RGt(a.y, p.y) # RGt(b.y, p.y)
    /\ Orient(a, b, p) = (IF RGt(b.y, a.y) THEN 1 ELSE -1)

StrictlyInside(p, poly) ==
    /\ ~OnBoundary(p, poly)
    /\ Cardinality({i \in 1..Len(poly) :
                      RayCrosses(p, poly[i], poly[Succ(poly, i)])}) % 2 = 1

RECURSIVE SumOver(_, _, _)
SumOver(f, i, n) == IF i > n THEN 0 ELSE f[i] + SumOver(f, i + 1, n)

BoundaryLatticePoints(poly) ==
    SumOver([i \in 1..Len(poly) |->
                GCD(Abs(poly[Succ(poly, i)].x[1] - poly[i].x[1]),
                    Abs(poly[Succ(poly, i)].y[1] - poly[i].y[1]))],
            1, Len(poly))

InteriorLatticePoints(poly) ==
    LET b == getPolygonBounds(poly)
    IN Cardinality({q \in (b.x[1] .. b.x[1] + b.width[1])
                           \X (b.y[1] .. b.y[1] + b.height[1]) :
                      StrictlyInside(IPt(q[1], q[2]), poly)})

PickArea(poly) ==
    RSub(RAdd(R(InteriorLatticePoints(poly)), Frac(BoundaryLatticePoints(poly), 2)),
         One)

(* The four corners of an axis-aligned rectangle of positive width and     *)
(* height, in ring order.                                                  *)
IsAxisRect(poly) ==
    /\ Len(poly) = 4
    /\ Cardinality({poly[i] : i \in 1..4}) = 4
    /\ LET b == getPolygonBounds(poly)
       IN /\ RGt(b.width, Zero) /\ RGt(b.height, Zero)
          /\ \A i \in 1..4 :
                /\ poly[i].x \in {b.x, RAdd(b.x, b.width)}
                /\ poly[i].y \in {b.y, RAdd(b.y, b.height)}
                /\ (poly[i].x = poly[Succ(poly, i)].x)
                      # (poly[i].y = poly[Succ(poly, i)].y)

---------------------------------------------------------------------------
(* C9: calculatePolygonArea returns the true area of a simple polygon: the *)
(* area by Pick's theorem for a simple lattice polygon, width * height     *)
(* for an axis-aligned rectangle, half the absolute cross product for a    *)
(* triangle; and it is never negative.                                     *)
C9_AreaIsEuclidean ==
    called = "calculatePolygonArea" =>
        /\ RGe(ret, Zero)
        /\ (IsLattice(polygonPoints) /\ IsSimple(polygonPoints))
              => ret = PickArea(polygonPoints)
        /\ IsAxisRect(polygonPoints)
              => LET b == getPolygonBounds(polygonPoints)
                 IN ret = RMul(b.width, b.height)
        /\ Len(polygonPoints) = 3
              => ret = RDiv(RAbs(Cross(polygonPoints[1], polygonPoints[2],
                                       polygonPoints[3])), R(2))

C9_Witness ==
    called = "calculatePolygonArea" /\ polygonPoints = Rect10x5 /\ ret = R(50)

(* C10: winding independence: the area of the reversed vertex list equals  *)
(* the area of the list.                                                   *)
C10_WindingIndependence ==
    called = "calculatePolygonArea" =>
        calculatePolygonArea(Reverse(polygonPoints)) = ret

C10_Witness ==
    /\ called = "calculatePolygonArea"
    /\ IsSimple(polygonPoints)
    /\ RGt(ShoelaceFrom(polygonPoints, 1, Zero), Zero)
    /\ RLt(ShoelaceFrom(Reverse(polygonPoints), 1, Zero), Zero)
    /\ calculatePolygonArea(Reverse(polygonPoints)) = ret

---------------------------------------------------------------------------
(* Position of a point relative to the rectangle spanned by a ring.        *)
InRectInterior(p, b) ==
    /\ RLt(b.x, p.x) /\ RLt(p.x, RAdd(b.x, b.width))
    /\ RLt(b.y, p.y) /\ RLt(p.y, RAdd(b.y, b.height))

InRectClosed(p, b) ==
    /\ RLe(b.x, p.x) /\ RLe(p.x, RAdd(b.x, b.width))
    /\ RLe(b.y, p.y) /\ RLe(p.y, RAdd(b.y, b.height))

OnRectBoundary(p, b) == InRectClosed(p, b) /\ ~InRectInterior(p, b)

(* C7: isPointInPolygon is boundary inclusive: every point on the          *)
(* boundary of an axis-aligned rectangle is classified as inside.          *)
C7_BoundaryInclusive ==
    (called = "isPointInPolygon" /\ IsAxisRect(polygonPoints)
        /\ OnRectBoundary(point, getPolygonBounds(polygonPoints)))
    => ret = TRUE

(* C8: for an axis-aligned rectangle in ring order, isPointInPolygon is    *)
(* true for every point strictly inside and false for every point          *)
(* strictly outside, the outside points level with a vertex or a           *)
(* horizontal edge included.                                               *)
C8_RectangleInsideOutside ==
    (called = "isPointInPolygon" /\ IsAxisRect(polygonPoints)) =>
        LET b == getPolygonBounds(polygonPoints)
        IN /\ InRectInterior(point, b) => ret = TRUE
           /\ ~InRectClosed(point, b) => ret = FALSE

C8_Witness ==
    /\ called = "isPointInPolygon"
    /\ IsAxisRect(polygonPoints)
    /\ ~InRectClosed(point, getPolygonBounds(polygonPoints))
    /\ \E i \in 1..4 : polygonPoints[i].y = point.y
    /\ ret = FALSE

---------------------------------------------------------------------------
(* The window of a clip as the code reads it, and reference predicates     *)
(* about it.                                                               *)
WindowRight(b) == RAdd(b.x, RMax(Zero, b.width))
WindowBottom(b) == RAdd(b.y, RMax(Zero, b.height))

(* v is in the closed window.                                              *)
InWindow(v, b) ==
    /\ RLe(b.x, v.x) /\ RLe(v.x, WindowRight(b))
    /\ RLe(b.y, v.y) /\ RLe(v.y, WindowBottom(b))

(* v is in the window, or at most 1e-6 outside it in each coordinate.      *)
InWindowUpToTolerance(v, b) ==
    /\ GeNegInv(RSub(v.x, b.x), EpsilonDen)
    /\ GeNegInv(RSub(WindowRight(b), v.x), EpsilonDen)
    /\ GeNegInv(RSub(v.y, b.y), EpsilonDen)
    /\ GeNegInv(RSub(WindowBottom(b), v.y), EpsilonDen)

WindowCorners(b) ==
    <<Pt(b.x, b.y), Pt(WindowRight(b), b.y),
      Pt(WindowRight(b), WindowBottom(b)), Pt(b.x, WindowBottom(b))>>

(* The region of a simple polygon (boundary included) and the closed       *)
(* window have no point in common: no vertex in the window, no corner of   *)
(* the window in the polygon, no edge meeting an edge.                     *)
Disjoint(poly, b) ==
    LET c == WindowCorners(b)
    IN /\ \A i \in 1..Len(poly) : ~InWindow(poly[i], b)
       /\ \A k \in 1..4 : ~OnBoundary(c[k], poly) /\ ~StrictlyInside(c[k], poly)
       /\ \A i \in 1..Len(poly) : \A k \in 1..4 :
             ~SegmentsMeet(poly[i], poly[Succ(poly, i)], c[k], c[(k % 4) + 1])

(* No vertex is off the line x = s by 1e-6 or less.                        *)
ClearOfLine(poly, s) ==
    \A i \in 1..Len(poly) :
        poly[i].x = s \/ GtInv(RAbs(RSub(poly[i].x, s)), EpsilonDen)

C4_OutputInsideWindow ==
    (called = "clipPolygonSutherlandHodgman" /\ clipBounds # NullObj
        /\ Len(polygonPoints) >= 3) =>
        \A i \in 1..Len(ret) : InWindowUpToTolerance(ret[i], clipBounds)

(* C5: clipping a simple polygon that has no point in common with the      *)
(* window returns the empty vertex list.                                   *)
C5_OutsideGivesEmpty ==
    (called = "clipPolygonSutherlandHodgman" /\ clipBounds # NullObj
        /\ ret # <<>> /\ IsSimple(polygonPoints))
    => ~Disjoint(polygonPoints, clipBounds)

(* C6: clip idempotence: when every vertex of a polygon (3 vertices or     *)
(* more) lies in the window, the clip returns exactly the input list.      *)
C6_ClipIdempotence ==
    (called = "clipPolygonSutherlandHodgman" /\ clipBounds # NullObj
        /\ Len(polygonPoints) >= 3
        /\ \A i \in 1..Len(polygonPoints) : InWindow(polygonPoints[i], clipBounds))
    => ret = polygonPoints

C6_Witness ==
    /\ called = "clipPolygonSutherlandHodgman" /\ clipBounds # NullObj
    /\ Len(polygonPoints) >= 3
    /\ \A i \in 1..Len(polygonPoints) : InWindow(polygonPoints[i], clipBounds)
    /\ \E i \in 1..Len(polygonPoints) : polygonPoints[i].x = WindowRight(clipBounds)
    /\ ret = polygonPoints

---------------------------------------------------------------------------
(* The true areas of the two parts of a simple polygon cut by the line     *)
(* x = s, by Green's theorem: the area of the part with x <= s is the      *)
(* absolute value of the integral of min(x, s) dy along the boundary.      *)

(* Integral of min(x, s) along the edge from a to b, per unit of dy.       *)
MeanMin(xa, xb, s) ==
    IF RLe(xa, s) /\ RLe(xb, s) THEN RDiv(RAdd(xa, xb), R(2))
    ELSE IF RGe(xa, s) /\ RGe(xb, s) THEN s
    ELSE LET t == RDiv(RSub(s, xa), RSub(xb, xa))
         IN IF RLt(xa, s)
            THEN RAdd(RMul(t, RDiv(RAdd(xa, s), R(2))), RMul(RSub(One, t), s))
            ELSE RAdd(RMul(t, s), RMul(RSub(One, t), RDiv(RAdd(s, xb), R(2))))

RECURSIVE LowIntegral(_, _, _)
LowIntegral(poly, s, i) ==
    IF i > Len(poly) THEN Zero
    ELSE LET a == poly[i]
             b == poly[Succ(poly, i)]
         IN RAdd(RMul(MeanMin(a.x, b.x, s), RSub(b.y, a.y)),
                 LowIntegral(poly, s, i + 1))

RECURSIVE FullIntegral(_, _)
FullIntegral(poly, i) ==
    IF i > Len(poly) THEN Zero
    ELSE LET a == poly[i]
             b == poly[Succ(poly, i)]
         IN RAdd(RMul(RDiv(RAdd(a.x, b.x), R(2)), RSub(b.y, a.y)),
                 FullIntegral(poly, i + 1))

TrueAreaLow(poly, s) == RAbs(LowIntegral(poly, s, 1))
TrueAreaHigh(poly, s) == RAbs(RSub(FullIntegral(poly, 1), LowIntegral(poly, s, 1)))

Transpose(poly) == [i \in 1..Len(poly) |-> Pt(poly[i].y, poly[i].x)]

(* The polygon as seen across the split line, and the split coordinate.    *)
AcrossSplit == IF splitDirection = "vertical" THEN polygonPoints
               ELSE Transpose(polygonPoints)
SplitCoord == IF splitDirection = "vertical" THEN splitNaturalX ELSE splitNaturalY

InsideExtent(poly, dims) ==
    \A i \in 1..Len(poly) :
        /\ RLe(Zero, poly[i].x) /\ RLe(poly[i].x, dims.width)
        /\ RLe(Zero, poly[i].y) /\ RLe(poly[i].y, dims.height)

(* The case C1 is about: a simple polygon inside the extent, a positive    *)
(* total area, a split coordinate inside the extent.                       *)
C1_Case ==
    /\ called = "calculateAreas"
    /\ imageDimensions # NullObj
    /\ SplitCoord # Null
    /\ RGt(initialSqM, Zero)
    /\ IsSimple(polygonPoints)
    /\ InsideExtent(polygonPoints, imageDimensions)
    /\ RLe(Zero, SplitCoord)
    /\ RLe(SplitCoord, IF splitDirection = "vertical" THEN imageDimensions.width
                       ELSE imageDimensions.height)

C1_Shares ==
    LET A1 == TrueAreaLow(AcrossSplit, SplitCoord)
        A2 == TrueAreaHigh(AcrossSplit, SplitCoord)
    IN /\ ret.area1 = RDiv(RMul(initialSqM, A1), RAdd(A1, A2))
       /\ ret.area2 = RDiv(RMul(initialSqM, A2), RAdd(A1, A2))

C2_AreasSumToTotal ==
    (/\ called = "calculateAreas"
     /\ SplitCoord # Null
     /\ Len(polygonPoints) >= 3
     /\ RGt(initialSqM, Zero)
     /\ imageDimensions # NullObj)
    => RAdd(ret.area1, ret.area2) = initialSqM

C2_Witness ==
    /\ called = "calculateAreas"
    /\ SplitCoord # Null
    /\ Len(polygonPoints) >= 3
    /\ RGt(initialSqM, Zero)
    /\ imageDimensions # NullObj
    /\ calculatePolygonArea(ret.subPoly1) = Zero
    /\ calculatePolygonArea(ret.subPoly2) = Zero
    /\ RAdd(ret.area1, ret.area2) = initialSqM

---------------------------------------------------------------------------
---------------------------------------------------------------------------
(* C12: calculateAreas returns the zero-filled result whenever no split    *)
(* coordinate is defined, or the polygon has fewer than 3 vertices, or     *)
(* totalArea <= 0, or the extent is absent.                                *)
C12_ZeroFilledResult ==
    (/\ called = "calculateAreas"
     /\ \/ (splitNaturalX = Null /\ splitNaturalY = Null)
        \/ Len(polygonPoints) < 3
        \/ RLe(initialSqM, Zero)
        \/ imageDimensions = NullObj)
    => /\ ret.area1 = Zero /\ ret.area2 = Zero
       /\ ret.label1 = "Area 1" /\ ret.label2 = "Area 2"
       /\ ret.subPoly1 = <<>> /\ ret.subPoly2 = <<>>

C12_Witness ==
    /\ called = "calculateAreas"
    /\ SplitCoord # Null
    /\ IsSimple(polygonPoints)
    /\ imageDimensions # NullObj
    /\ RLt(initialSqM, Zero)
    /\ ret = ZeroResult

---------------------------------------------------------------------------
(* The case C13 is about: a non-trivial evaluation with the split          *)
(* coordinate at the polygon's minimum x (vertical) or minimum y           *)
(* (horizontal), for a polygon of positive area.                           *)
C13_Case ==
    /\ called = "calculateAreas"
    /\ imageDimensions # NullObj
    /\ SplitCoord # Null
    /\ RGt(initialSqM, Zero)
    /\ Len(polygonPoints) >= 3
    /\ RGt(calculatePolygonArea(polygonPoints), Zero)
    /\ SplitCoord = getPolygonBounds(AcrossSplit).x

C13_Fallback ==
    /\ calculatePolygonArea(ret.subPoly1) = Zero
    /\ ret.area1 = Zero
    /\ ret.area2 = initialSqM

---------------------------------------------------------------------------
(* All the vertices of a list are on one line.                             *)
Collinear(list) ==
    \A i, j, k \in 1..Len(list) : Orient(list[i], list[j], list[k]) = 0

(* C14: a window of zero (or negative, treated as zero) width or height    *)
(* clips every polygon to a vertex list of zero area: empty, or with all   *)
(* its vertices on one line.                                               *)
C14_DegenerateWindow ==
    (/\ called = "clipPolygonSutherlandHodgman"
     /\ clipBounds # NullObj
     /\ (RLe(clipBounds.width, Zero) \/ RLe(clipBounds.height, Zero)))
    => /\ calculatePolygonArea(ret) = Zero
       /\ (ret = <<>> \/ Collinear(ret))

---------------------------------------------------------------------------
(* C15: clipPolygonSutherlandHodgman returns the empty list whenever the   *)
(* window is null or the polygon has fewer than 3 vertices.                *)
C15_NullWindowOrShortList ==
    (/\ called = "clipPolygonSutherlandHodgman"
     /\ (clipBounds = NullObj \/ Len(polygonPoints) < 3))
    => ret = <<>>

C15_Witness ==
    /\ called = "clipPolygonSutherlandHodgman"
    /\ clipBounds # NullObj
    /\ Len(polygonPoints) = 2
    /\ \A i \in 1..2 : InWindow(polygonPoints[i], clipBounds)
    /\ ret = <<>>

---------------------------------------------------------------------------
(* C16: isPointInPolygon returns false for every point when the polygon    *)
(* has fewer than 3 vertices, a point equal to one of the vertices         *)
(* included.                                                               *)
C16_ShortListContainsNothing ==
    (called = "isPointInPolygon" /\ Len(polygonPoints) < 3) => ret = FALSE

C16_Witness ==
    /\ called = "isPointInPolygon"
    /\ Len(polygonPoints) = 2
    /\ polygonPoints[1].y = polygonPoints[2].y
    /\ point = polygonPoints[1]
    /\ ret = FALSE

---------------------------------------------------------------------------
(* A non-trivial evaluation of calculateAreas: split coordinate defined,   *)
(* at least 3 vertices, totalArea > 0, extent present.                     *)
NonTrivial ==
    /\ called = "calculateAreas"
    /\ SplitCoord # Null
    /\ Len(polygonPoints) >= 3
    /\ RGt(initialSqM, Zero)
    /\ imageDimensions # NullObj

(* C17: in every non-trivial result the labels are determined by the       *)
(* direction alone ('Left Area'/'Right Area' for vertical, 'Top Area'/     *)
(* 'Bottom Area' for horizontal), and the generic labels appear only in    *)
(* the zero-filled result.                                                 *)
C17_LabelsByDirection ==
    called = "calculateAreas" =>
        /\ NonTrivial =>
              IF splitDirection = "vertical"
              THEN ret.label1 = "Left Area" /\ ret.label2 = "Right Area"
              ELSE ret.label1 = "Top Area" /\ ret.label2 = "Bottom Area"
        /\ (ret.label1 = "Area 1" \/ ret.label2 = "Area 2") => ret = ZeroResult

C17_Witness ==
    /\ NonTrivial
    /\ splitDirection = "horizontal"
    /\ calculatePolygonArea(ret.subPoly1) = Zero
    /\ calculatePolygonArea(ret.subPoly2) = Zero
    /\ ret.label1 = "Top Area" /\ ret.label2 = "Bottom Area"

---------------------------------------------------------------------------
(* C18: no geometry operation divides by zero: isPointInPolygon never      *)
(* evaluates the x-intercept of an edge with equal y endpoints,            *)
(* intersectSH never interpolates along an edge parallel to the clip       *)
(* line, and calculateAreas never divides by a pixel-area sum that is not  *)
(* greater than 1e-6.                                                      *)
C18_NoDivisionByZero ==
    /\ called = "isPointInPolygon" =>
          Zero \notin isPointInPolygonDivisors(point, polygonPoints)
    /\ called = "clipPolygonSutherlandHodgman" =>
          \A d \in clipPolygonSutherlandHodgmanDivisors(polygonPoints, clipBounds) :
              ~LtInv(RAbs(d), ParallelDen)
    /\ called = "calculateAreas" =>
          /\ \A d \in calculateAreasClipDivisors(imageDimensions) :
                 ~LtInv(RAbs(d), ParallelDen)
          /\ \A d \in areaRatioDivisors(calculatePolygonArea(ret.subPoly1),
                                        calculatePolygonArea(ret.subPoly2)) :
                 GtInv(d, AreaThresholdDen)

(* A positive pixel-area sum at or below the threshold is not divided by.  *)
C18_Witness ==
    /\ NonTrivial
    /\ LET total_pixels == RAdd(calculatePolygonArea(ret.subPoly1),
                                calculatePolygonArea(ret.subPoly2))
       IN /\ RGt(total_pixels, Zero)
          /\ ~GtInv(total_pixels, AreaThresholdDen)
          /\ areaRatioDivisors(calculatePolygonArea(ret.subPoly1),
                               calculatePolygonArea(ret.subPoly2)) = {}
    /\ ret.area1 = Zero

(* States of the other two operations in which a division takes place.    *)
C18_RayCastDivides ==
    /\ called = "isPointInPolygon"
    /\ isPointInPolygonDivisors(point, polygonPoints) # {}
    /\ \E i \in 1..Len(polygonPoints) :
          polygonPoints[i].y = polygonPoints[Succ(polygonPoints, i)].y

C18_ClipDivides ==
    /\ called = "clipPolygonSutherlandHodgman"
    /\ clipPolygonSutherlandHodgmanDivisors(polygonPoints, clipBounds) # {}


---------------------------------------------------------------------------
---------------------------------------------------------------------------
(* C20: a split line is placed only by a click inside the defined          *)
(* polygon.  Outside defining mode and with at least 3 polygon points, a   *)
(* click for which isPointInPolygon is true sets the split coordinate of   *)
(* the current direction to the click's coordinate, and a click for which  *)
(* it is false leaves the split coordinates and every other state          *)
(* variable unchanged; and every step that stores a new split coordinate   *)
(* is such a click inside the polygon.                                     *)
C20_SplitOnlyByClickInside ==
    [][/\ (imageSrc # NullObj /\ ~isDefiningPolygon /\ Len(polygonPoints) >= 3)
          => \A clickPoint \in NaturalClicks :
                imageClick(clickPoint)
                => IF isPointInPolygon(clickPoint, polygonPoints)
                   THEN IF splitDirection = "vertical"
                        THEN splitNaturalX' = clickPoint.x
                        ELSE splitNaturalY' = clickPoint.y
                   ELSE UNCHANGED vars
       /\ (\/ splitNaturalX' # Null /\ splitNaturalX' # splitNaturalX
           \/ splitNaturalY' # Null /\ splitNaturalY' # splitNaturalY)
          => /\ ~isDefiningPolygon
             /\ Len(polygonPoints) >= 3
             /\ \E clickPoint \in NaturalClicks :
                   /\ isPointInPolygon(clickPoint, polygonPoints)
                   /\ imageClick(clickPoint)]_vars

(* A horizontal split line lies where a click inside the polygon put it,   *)
(* in a state where clicks beside the polygon are possible as well.        *)
C20_Witness ==
    /\ ~isDefiningPolygon
    /\ Len(polygonPoints) >= 3
    /\ splitDirection = "horizontal"
    /\ splitNaturalX = Null
    /\ splitNaturalY # Null
    /\ \E clickPoint \in NaturalClicks :
          /\ clickPoint.y = splitNaturalY
          /\ isPointInPolygon(clickPoint, polygonPoints)
    /\ \E clickPoint \in NaturalClicks :
          ~isPointInPolygon(clickPoint, polygonPoints)

---------------------------------------------------------------------------
(* C21.  A polygon needs at least 3 points: in every reachable state of    *)
(* the application that is not in defining mode, the list of polygon       *)
(* points is empty or has at least 3 points.                               *)

C21_FinishedPolygonHasThreePoints ==
    ~isDefiningPolygon =>
        Len(polygonPoints) = 0 \/ Len(polygonPoints) >= 3

(* A finished polygon: defining mode has been left with 3 points or more   *)
(* and their area has been stored.                                         *)
C21_Witness ==
    /\ ~isDefiningPolygon
    /\ Len(polygonPoints) >= 3
    /\ definedPolygonAreaPixels = calculatePolygonArea(polygonPoints)

---------------------------------------------------------------------------
(* C22.  Undo removes exactly the last point added.  Every step of         *)
(* handleUndoPoint shortens the list by its last point and keeps the       *)
(* others in order; a click that adds a point is reverted by the slice     *)
(* that undo applies; outside defining mode or with an empty list the      *)
(* body of handleUndoPoint can change nothing.                             *)

C22_UndoStep ==
    undoPoint /\ polygonPoints' # polygonPoints
    => /\ isDefiningPolygon /\ Len(polygonPoints) > 0
       /\ Len(polygonPoints') = Len(polygonPoints) - 1
       /\ \A i \in 1..Len(polygonPoints') : polygonPoints'[i] = polygonPoints[i]

C22_ClickThenUndo ==
    (isDefiningPolygon /\ \E clickPoint \in NaturalClicks : imageClick(clickPoint))
    => /\ Len(polygonPoints') = Len(polygonPoints) + 1
       /\ slice(polygonPoints', 0, -1) = polygonPoints

C22_UndoRemovesLastPoint ==
    /\ [][C22_UndoStep /\ C22_ClickThenUndo]_vars
    /\ [](~(isDefiningPolygon /\ Len(polygonPoints) > 0)
            => ~ENABLED (undoPoint /\ vars' # vars))

(* Defining mode with a point that a click has added and that undo is      *)
(* about to remove, the other points staying as they are.                  *)
C22_Witness ==
    /\ isDefiningPolygon
    /\ Len(polygonPoints) >= 2
    /\ polygonPoints[1] # polygonPoints[Len(polygonPoints)]
    /\ ENABLED (handleUndoPoint /\ polygonPoints'[1] = polygonPoints[1])

---------------------------------------------------------------------------
(* C23.  From every reachable state, handleResetPolygon leads to the       *)
(* state with no polygon points, both split coordinates null, defining     *)
(* mode off and the stored pixel area null, and it leaves the image, the   *)
(* image dimensions, initialSqM and the split direction unchanged.         *)

C23_Cleared ==
    /\ polygonPoints = <<>>
    /\ splitNaturalX = Null
    /\ splitNaturalY = Null
    /\ ~isDefiningPolygon
    /\ definedPolygonAreaPixels = Null

C23_ResetClearsPolygon ==
    /\ [][handleResetPolygon
            => /\ C23_Cleared'
               /\ UNCHANGED <<imageSrc, imageDimensions, initialSqM,
                              splitDirection>>]_vars
    /\ [](/\ ENABLED ResetPolygon
           /\ ~ENABLED (ResetPolygon /\ ~C23_Cleared'))

(* A finished polygon with a horizontal split line, from which             *)
(* handleResetPolygon leads to the cleared state with the same image.      *)
C23_Witness ==
    /\ Len(polygonPoints) >= 3
    /\ splitNaturalY # Null
    /\ definedPolygonAreaPixels # Null
    /\ splitDirection = "horizontal"
    /\ ENABLED (handleResetPolygon /\ C23_Cleared'
                   /\ imageDimensions' = imageDimensions
                   /\ splitDirection' = "horizontal")

---------------------------------------------------------------------------
(* C24.  In every reachable state of the application at most one of        *)
(* splitNaturalX and splitNaturalY is non-null, and a non-null one         *)
(* belongs to the current direction: splitNaturalX to vertical,            *)
(* splitNaturalY to horizontal.                                            *)

C24_SplitMatchesDirection ==
    /\ splitNaturalX = Null \/ splitNaturalY = Null
    /\ splitNaturalX # Null => splitDirection = "vertical"
    /\ splitNaturalY # Null => splitDirection = "horizontal"

(* The direction has been changed to horizontal and a horizontal split    *)
(* line has been placed; the direction can be changed back.                *)
C24_Witness ==
    /\ splitDirection = "horizontal"
    /\ splitNaturalY # Null
    /\ splitNaturalX = Null
    /\ ENABLED (handleChangeSplitDirection /\ splitDirection' = "vertical")

---------------------------------------------------------------------------
(* C25.  In every reachable state a non-null split coordinate implies      *)
(* that the application is not in defining mode, that the polygon has at   *)
(* least 3 points and that imageDimensions is set.                         *)

C25_SplitNeedsFinishedPolygon ==
    (splitNaturalX # Null \/ splitNaturalY # Null)
    => /\ ~isDefiningPolygon
       /\ Len(polygonPoints) >= 3
       /\ imageDimensions # NullObj

(* A split line on a finished polygon, with the Start button enabled and   *)
(* a file read in flight.                                                  *)
C25_Witness ==
    /\ splitNaturalX # Null \/ splitNaturalY # Null
    /\ ENABLED handleStartDefining
    /\ reader > 0

---------------------------------------------------------------------------
(* C26.  Every stored split coordinate lies within the image extent        *)
(* (0 <= splitNaturalX <= width, 0 <= splitNaturalY <= height), so the     *)
(* two clip windows built by calculateAreas have non-negative width and    *)
(* height and together cover the extent exactly.                           *)

(* The windows clipBounds1 and clipBounds2 that calculateAreas builds      *)
(* (part_001:286-297); no window when it returns before building them.    *)
calculateAreasClipBounds(imgDims) ==
    LET isSplitDefined == splitNaturalX # Null \/ splitNaturalY # Null
    IN IF ~isSplitDefined \/ Len(polygonPoints) < 3
          \/ RLe(RMax(Zero, initialSqM), Zero) \/ imgDims = NullObj
       THEN <<>>
       ELSE IF splitDirection = "vertical" /\ splitNaturalX # Null
       THEN <<Rect(Zero, Zero, splitNaturalX, imgDims.height),
              Rect(splitNaturalX, Zero, RSub(imgDims.width, splitNaturalX),
                   imgDims.height)>>
       ELSE IF splitDirection = "horizontal" /\ splitNaturalY # Null
       THEN <<Rect(Zero, Zero, imgDims.width, splitNaturalY),
              Rect(Zero, splitNaturalY, imgDims.width,
                   RSub(imgDims.height, splitNaturalY))>>
       ELSE <<>>

(* The windows b1 and b2 have non-negative sides, do not overlap in more   *)
(* than a line, and their union is the extent [0, width] x [0, height].    *)
PartitionsExtent(b1, b2, dims) ==
    /\ \A b \in {b1, b2} : RGe(b.width, Zero) /\ RGe(b.height, Zero)
    /\ b1.x = Zero /\ b1.y = Zero
    /\ \/ /\ b2.x = RAdd(b1.x, b1.width) /\ b2.y = Zero
          /\ RAdd(b2.x, b2.width) = dims.width
          /\ b1.height = dims.height /\ b2.height = dims.height
       \/ /\ b2.y = RAdd(b1.y, b1.height) /\ b2.x = Zero
          /\ RAdd(b2.y, b2.height) = dims.height
          /\ b1.width = dims.width /\ b2.width = dims.width

C26_SplitWithinExtent ==
    /\ splitNaturalX # Null
          => /\ imageDimensions # NullObj
             /\ RLe(Zero, splitNaturalX)
             /\ RLe(splitNaturalX, imageDimensions.width)
    /\ splitNaturalY # Null
          => /\ imageDimensions # NullObj
             /\ RLe(Zero, splitNaturalY)
             /\ RLe(splitNaturalY, imageDimensions.height)
    /\ calculateAreasClipBounds(imageDimensions) # <<>>
          => /\ PartitionsExtent(calculateAreasClipBounds(imageDimensions)[1],
                                 calculateAreasClipBounds(imageDimensions)[2],
                                 imageDimensions)
             /\ calculateAreas(imageDimensions).subPoly1 =
                   clipPolygonSutherlandHodgman(polygonPoints,
                       calculateAreasClipBounds(imageDimensions)[1])
             /\ calculateAreas(imageDimensions).subPoly2 =
                   clipPolygonSutherlandHodgman(polygonPoints,
                       calculateAreasClipBounds(imageDimensions)[2])

(* A split line on the last pixel column of the image: the second window   *)
(* has width 0.                                                            *)
C26_Witness ==
    /\ splitNaturalX # Null
    /\ imageDimensions # NullObj
    /\ splitNaturalX = imageDimensions.width
    /\ RGt(initialSqM, Zero)
    /\ calculateAreasClipBounds(imageDimensions)[2].width = Zero

---------------------------------------------------------------------------
(* C27.  Under any interleaving of file-read completion, image load,       *)
(* image error and user events: whenever imageDimensions is null, the      *)
(* list of polygon points is empty and both split coordinates are null.    *)
(* A click between the completion of a file read and the load event of     *)
(* the image records nothing, and the load event resets the polygon        *)
(* state.                                                                  *)

C27_NoPolygon ==
    /\ polygonPoints = <<>>
    /\ splitNaturalX = Null
    /\ splitNaturalY = Null

C27_NoPolygonWithoutDimensions ==
    /\ [](imageDimensions = NullObj
            => /\ C27_NoPolygon
               /\ ~ENABLED (handleImageClick /\ vars' # vars))
    /\ [][handleImageLoad
            => C27_NoPolygon' /\ ~isDefiningPolygon'
               /\ imageDimensions' # NullObj]_vars

(* A file read has completed and its image has not loaded yet; the user    *)
(* has started to define a polygon, another read is in flight, and a       *)
(* click on the image is possible.                                         *)
C27_Witness ==
    /\ imageSrc # NullObj
    /\ imageDimensions = NullObj
    /\ isDefiningPolygon
    /\ reader > 0
    /\ ENABLED handleImageClick

---------------------------------------------------------------------------
(* C28.  In each half-plane pass of the clipper the output is the input's  *)
(* inside vertices in their input order, with exactly one intersection     *)
(* point inserted before the current vertex for each edge (predecessor,    *)
(* current; wrapping around) whose endpoints are on opposite sides; every  *)
(* inserted point has its clipped coordinate equal to the boundary         *)
(* coordinate, and a vertex exactly on the boundary counts as inside.      *)

(* The coordinate of p that a pass compares with the boundary.             *)
ClippedCoord(p, edgeType) ==
    IF edgeType \in {"left", "right"} THEN p.x ELSE p.y

(* p is on the kept side of the boundary, or at most 1e-6 beyond it.       *)
InHalfPlane(p, edgeType, coord) ==
    IF edgeType \in {"left", "top"}
    THEN GeNegInv(RSub(ClippedCoord(p, edgeType), coord), EpsilonDen)
    ELSE GeNegInv(RSub(coord, ClippedCoord(p, edgeType)), EpsilonDen)

Predecessor(list, i) == IF i = 1 THEN list[Len(list)] ELSE list[i - 1]

(* The edge that ends at vertex i has its endpoints on opposite sides.     *)
Crosses(list, edgeType, coord, i) ==
    InHalfPlane(Predecessor(list, i), edgeType, coord)
        # InHalfPlane(list[i], edgeType, coord)

(* For each vertex of a pass: whether it is inside, and whether the edge   *)
(* that ends at it crosses the boundary.                                   *)
InsideFlags(list, edgeType, coord) ==
    [i \in 1..Len(list) |-> InHalfPlane(list[i], edgeType, coord)]

CrossFlags(inside) ==
    [i \in 1..Len(inside) |->
        inside[IF i = 1 THEN Len(inside) ELSE i - 1] # inside[i]]

(* The number of output points up to and including vertex i: the inside    *)
(* vertices and one point for each crossing edge.                          *)
OutputIndex(inside, crosses, i) ==
    Cardinality({k \in 1..i : inside[k]})
        + Cardinality({k \in 1..i : crosses[k]})

PassStructure(list, edgeType, coord, output) ==
    \A inside \in {InsideFlags(list, edgeType, coord)} :
    \A crosses \in {CrossFlags(inside)} :
       /\ Len(output) = OutputIndex(inside, crosses, Len(list))
       /\ \A i \in 1..Len(list) :
             /\ ClippedCoord(list[i], edgeType) = coord => inside[i]
             /\ inside[i]
                   => output[OutputIndex(inside, crosses, i)] = list[i]
             /\ crosses[i]
                   => \A crossing \in {output[OutputIndex(inside, crosses, i)
                                               - (IF inside[i] THEN 1 ELSE 0)]} :
                         /\ ClippedCoord(crossing, edgeType) = coord
                         /\ crossing = intersectSH(Predecessor(list, i), list[i],
                                                   edgeType, coord)

(* The four passes of clipPolygonSutherlandHodgman(list, bounds): the      *)
(* input, the edge and the boundary coordinate of each.                    *)
PassOf(list, edgeType, coord) ==
    [input |-> list, edgeType |-> edgeType, coord |-> coord,
     output |-> clipPolygonAgainstEdgeSH(list, edgeType, coord)]

Passes(list, bounds) ==
    LET leftPass == PassOf(list, "left", bounds.x)
        rightPass == PassOf(leftPass.output, "right", WindowRight(bounds))
        topPass == PassOf(rightPass.output, "top", bounds.y)
        bottomPass == PassOf(topPass.output, "bottom", WindowBottom(bounds))
    IN <<leftPass, rightPass, topPass, bottomPass>>

C28_Case ==
    /\ called = "clipPolygonSutherlandHodgman"
    /\ clipBounds # NullObj
    /\ Len(polygonPoints) >= 3

C28_PassStructure ==
    C28_Case
    => \A passes \in {Passes(polygonPoints, clipBounds)} :
          /\ \A pass \in {passes[k] : k \in 1..4} :
                PassStructure(pass.input, pass.edgeType, pass.coord,
                              pass.output)
          /\ ret = passes[4].output

(* A pass with an edge that enters and an edge that leaves the half-plane  *)
(* and with a vertex exactly on the boundary.                              *)
C28_Witness ==
    /\ C28_Case
    /\ \E passes \in {Passes(polygonPoints, clipBounds)} :
          \E pass \in {passes[k] : k \in 1..4} :
             /\ \E i \in 1..Len(pass.input) :
                   /\ Crosses(pass.input, pass.edgeType, pass.coord, i)
                   /\ InHalfPlane(pass.input[i], pass.edgeType, pass.coord)
             /\ \E i \in 1..Len(pass.input) :
                   /\ Crosses(pass.input, pass.edgeType, pass.coord, i)
                   /\ ~InHalfPlane(pass.input[i], pass.edgeType, pass.coord)
             /\ \E i \in 1..Len(pass.input) :
                   ClippedCoord(pass.input[i], pass.edgeType) = pass.coord
             /\ Len(pass.output) > Len(pass.input)

---------------------------------------------------------------------------
(* C29.  In calculateAreas the branch ratio = 1.0 is never taken: both     *)
(* pixel areas are non-negative, so area1_pixels > 1e-6 implies            *)
(* total_pixels > 1e-6; whenever total_pixels <= 1e-6 the ratio is 0 and   *)
(* the whole total area goes to area2; in every case 0 <= ratio <= 1.      *)

(* The branch conditions of part_001:310-316 on the pixel areas p1, p2.    *)
TakesRatioOne(p1, p2) ==
    ~GtInv(RAdd(p1, p2), AreaThresholdDen) /\ GtInv(p1, AreaThresholdDen)

RatioFacts(p1, p2) ==
    /\ RGe(p1, Zero) /\ RGe(p2, Zero)
    /\ GtInv(p1, AreaThresholdDen) => GtInv(RAdd(p1, p2), AreaThresholdDen)
    /\ ~TakesRatioOne(p1, p2)
    /\ RGe(areaRatio(p1, p2), Zero) /\ RLe(areaRatio(p1, p2), One)
    /\ ~GtInv(RAdd(p1, p2), AreaThresholdDen)
          => /\ areaRatio(p1, p2) = Zero
             /\ ret.area1 = Zero
             /\ ret.area2 = RMax(Zero, initialSqM)
    /\ ret.area1 = RMul(RMax(Zero, initialSqM), areaRatio(p1, p2))

C29_RatioOneNeverTaken ==
    NonTrivial
    => RatioFacts(calculatePolygonArea(ret.subPoly1),
                  calculatePolygonArea(ret.subPoly2))

(* Both clipped polygons measure less than 1e-6 in sum, the first of them  *)
(* more than 0: the ratio is 0 and area2 is the whole total area.          *)
C29_Witness ==
    /\ NonTrivial
    /\ RGt(calculatePolygonArea(ret.subPoly1), Zero)
    /\ ~GtInv(RAdd(calculatePolygonArea(ret.subPoly1),
                   calculatePolygonArea(ret.subPoly2)), AreaThresholdDen)
    /\ ret.area1 = Zero
    /\ ret.area2 = initialSqM

---------------------------------------------------------------------------
(* C30.  calculateAreas of src/src/App.tsx distributes the total area by   *)
(* the split's relative position inside the polygon's bounding box, not    *)
(* by clipped areas: ratio = clamp(split - bounds.x, 0, bounds.width) /    *)
(* bounds.width (0 when the width is 0), with y and height for a           *)
(* horizontal split; area1 = initialSqM * ratio and area2 = initialSqM *   *)
(* (1 - ratio); the result is zero-filled when the stored split            *)
(* coordinate does not belong to the current direction.                    *)

Clamp(v, lo, hi) == IF RLt(v, lo) THEN lo ELSE IF RGt(v, hi) THEN hi ELSE v

(* The share of the bounding box of list on the near side of the           *)
(* coordinate s, across the x axis or the y axis.                          *)
BoxShare(list, s, axis) ==
    LET lo == IF axis = "x" THEN getPolygonBounds(list).x
              ELSE getPolygonBounds(list).y
        size == IF axis = "x" THEN getPolygonBounds(list).width
                ELSE getPolygonBounds(list).height
    IN IF size = Zero THEN Zero
       ELSE RDiv(Clamp(RSub(s, lo), Zero, size), size)

(* calculateAreas of App.tsx has been applied to a finished polygon with   *)
(* a split line and a positive total area.                                 *)
C30_Case ==
    /\ called = "App.tsx calculateAreas"
    /\ Len(polygonPoints) >= 3
    /\ polygonBounds # NullObj
    /\ RGt(initialSqM, Zero)
    /\ splitNaturalX # Null \/ splitNaturalY # Null

C30_ByBoundingBox ==
    C30_Case
    => /\ (splitDirection = "vertical" /\ splitNaturalX # Null)
             => /\ ret.area1 = RMul(initialSqM,
                                    BoxShare(polygonPoints, splitNaturalX, "x"))
                /\ ret.area2 = RMul(initialSqM,
                       RSub(One, BoxShare(polygonPoints, splitNaturalX, "x")))
       /\ (splitDirection = "horizontal" /\ splitNaturalY # Null)
             => /\ ret.area1 = RMul(initialSqM,
                                    BoxShare(polygonPoints, splitNaturalY, "y"))
                /\ ret.area2 = RMul(initialSqM,
                       RSub(One, BoxShare(polygonPoints, splitNaturalY, "y")))
       /\ (\/ splitDirection = "vertical" /\ splitNaturalX = Null
           \/ splitDirection = "horizontal" /\ splitNaturalY = Null)
             => ret = AppTsx_ZeroResult

(* A triangle split across its bounding box: the share of the box differs  *)
(* from the share of the clipped areas that calculateAreas of part_001     *)
(* returns for the same state.                                             *)
C30_Witness ==
    /\ C30_Case
    /\ splitDirection = "vertical" /\ splitNaturalX # Null
    /\ Len(polygonPoints) = 3
    /\ RGt(calculatePolygonArea(polygonPoints), Zero)
    /\ RGt(ret.area1, Zero) /\ RGt(ret.area2, Zero)
    /\ ret.area1 # calculateAreas(imageDimensions).area1

=============================================================================
